---- MODULE Spec2Model ----
(***************************************************************************)
(* State-machine model of mql5_ai_server_v2_3_claude.py: the signal store, *)
(* the trigger store, the signal tracking loop (breakeven + outcome), the  *)
(* trigger watcher loop and the HTTP handlers that write the two stores.   *)
(*                                                                         *)
(* Prices are integers in units of 1/PriceScale (1.10000 is 110000).       *)
(* pnl_pips values are integers in tenths of a pip (round(x, 1)).          *)
(* Timestamps are integers in minutes.                                     *)
(* A nullable numeric column is <<>> (NULL) or <<v>>; a nullable text      *)
(* column holds the string "NULL" when it is NULL.                         *)
(***************************************************************************)
EXTENDS Integers, Sequences, FiniteSets, TLC

\* ------------------------------------------------------------------ bounds
MaxSignals == 2      \* rows the signals table may hold
MaxTriggers == 2     \* rows the triggers table may hold
MaxTicks == 1        \* clock advances in one behaviour
MaxTracked == 1      \* rows the signals table may hold where every reply shape is explored
MaxGateRows == 4     \* rows the signals table may hold when the server starts
MaxEvalTriggers == 1 \* rows the triggers table may hold where every trigger shape is explored

\* --------------------------------------------------------------- constants
PriceScale == 10 * 10000      \* prices carry five decimals
StartTime == 19 * 60          \* the clock starts at 19:00
TickStep == 2 * 60 + 10       \* one clock advance
Requests == {"r1", "r2"}
Symbols == {"EURUSD", "XAUUSD"}
ENABLE_SIGNAL_BLOCKING == TRUE

None == <<>>
Some(v) == <<v>>
Val(o) == o[1]
NullStr == "NULL"

Abs(x) == IF x < 0 THEN -x ELSE x

\* round-half-even of n/d (d > 0), the rounding of Python's round()
RoundDiv(n, d) ==
    LET q == n \div d
        r == n % d
    IN  IF 2 * r < d THEN q
        ELSE IF 2 * r > d THEN q + 1
        ELSE IF q % 2 = 0 THEN q ELSE q + 1

get_pip_multiplier(symbol) ==
    IF symbol \in {"XAUUSD"} THEN 10
    ELSE IF symbol \in {"USDJPY"} THEN 100
    ELSE 10000

\* one pip of the symbol, in price units
Pip(symbol) == PriceScale \div get_pip_multiplier(symbol)

\* faulty variant: the tenth of a pip is cut off (floor) where round() belongs
calculate_pips_floor(entry_price, exit_price, symbol, decision) ==
    LET pip_multiplier == get_pip_multiplier(symbol)
        price_diff == IF decision = "BUY" THEN exit_price - entry_price
                      ELSE entry_price - exit_price
    IN  IF decision \notin {"BUY", "SELL"} THEN 0
        ELSE (price_diff * pip_multiplier * 10) \div PriceScale

\* pips rounded to one decimal, as an integer number of tenths of a pip
calculate_pips(entry_price, exit_price, symbol, decision) ==
    LET pip_multiplier == get_pip_multiplier(symbol)
        price_diff == IF decision = "BUY" THEN exit_price - entry_price
                      ELSE entry_price - exit_price
    IN  IF decision \notin {"BUY", "SELL"} THEN 0
        ELSE RoundDiv(price_diff * pip_multiplier * 10, PriceScale)

\* ------------------------------------------------------- input universes
Base(symbol) == IF symbol = "XAUUSD" THEN 195000000 ELSE 110000
PriceOffsets == {-50, -20, -5, 0, 5, 20, 50}
\* values the price feed can report for a symbol (bid > 0)
FeedPrices(symbol) == {Base(symbol) + k * Pip(symbol) : k \in PriceOffsets}
\* a bid, or None (no data)
PriceReadings(symbol) == {Some(p) : p \in FeedPrices(symbol)} \cup {None}

\* price_feed.json as a get_current_price call for a symbol finds it: is the file there,
\* its age in seconds, the bid it has for the symbol (None: symbol absent)
NoFeed == [exists |-> FALSE, age |-> 0, bid |-> None]
Feeds(symbol) ==
    {[exists |-> TRUE, age |-> 300, bid |-> Some(p)] : p \in FeedPrices(symbol)}
      \cup {NoFeed,
            [exists |-> TRUE, age |-> 301, bid |-> Some(Base(symbol) + 50 * Pip(symbol))],
            [exists |-> TRUE, age |-> 301, bid |-> Some(Base(symbol) - 20 * Pip(symbol))],
            [exists |-> TRUE, age |-> 0, bid |-> None]}

\* faulty variant: the age of the file is not looked at
get_current_price_any_age(feed) ==
    IF ~feed.exists THEN None ELSE feed.bid

\* get_current_price: the bid, or None (file missing, older than 5 minutes, symbol absent)
get_current_price(feed) ==
    IF ~feed.exists THEN None
    ELSE IF feed.age > 300 THEN None
    ELSE feed.bid

StopOffsets == {-20, 20, -5}
TargetOffsets == {-50, 50}
RsiValues == {50, 80}

NextTriggerChoices(symbol) ==
    { [type |-> "level_break", timeframe |-> "M15", level |-> Base(symbol) + 20 * Pip(symbol),
       direction |-> "above", expiry_bars |-> 8],
      [type |-> "retest_hold", timeframe |-> "H4", level |-> Base(symbol),
       direction |-> "bearish", expiry_bars |-> 8],
      [type |-> "none"] }

\* the shapes of a BUY/SELL reply: <<decision, stop offset, target offset>> in pips
PlainShapes == {<<"BUY", -20, 50>>, <<"SELL", 20, -50>>}
AllShapes == {"BUY", "SELL"} \X StopOffsets \X TargetOffsets

\* what the model call can come back with, after the JSON is decoded
TradeOutputs(symbol, shapes) ==
    { [ok |-> TRUE, decision |-> sh[1], entry |-> Some(Base(symbol)),
       sl |-> Some(Base(symbol) + sh[2] * Pip(symbol)),
       tp |-> Some(Base(symbol) + sh[3] * Pip(symbol)), next_trigger |-> None]
        : sh \in shapes }
WaitOutputs(symbol) ==
    { [ok |-> TRUE, decision |-> "WAIT", entry |-> None, sl |-> None, tp |-> None,
       next_trigger |-> nt]
        : nt \in {Some(x) : x \in NextTriggerChoices(symbol)} \cup {None} }
\* BUY replies that carry a next_trigger all the same (the prompt asks for null, nothing
\* enforces it): a complete one, and one without a stop
HedgedOutputs(symbol) ==
    { [ok |-> TRUE, decision |-> "BUY", entry |-> Some(Base(symbol)), sl |-> sl,
       tp |-> Some(Base(symbol) + 50 * Pip(symbol)),
       next_trigger |-> Some([type |-> "level_break", timeframe |-> "M15",
                              level |-> Base(symbol) + 20 * Pip(symbol),
                              direction |-> "above", expiry_bars |-> 8])]
        : sl \in {Some(Base(symbol) - 20 * Pip(symbol)), None} }
BadOutputs(symbol) ==
    { [ok |-> TRUE, decision |-> "BUY", entry |-> Some(Base(symbol)), sl |-> None,
       tp |-> Some(Base(symbol) + 50 * Pip(symbol)), next_trigger |-> None],
      [ok |-> TRUE, decision |-> "HOLD", entry |-> None, sl |-> None, tp |-> None,
       next_trigger |-> None],
      [ok |-> FALSE, decision |-> "WAIT", entry |-> None, sl |-> None, tp |-> None,
       next_trigger |-> None] }

\* -------------------------------------------------------------- state
VARIABLES
    signals,        \* signals table of signal_tracking.db, row id = index
    triggers,       \* triggers table of triggers.db, row id = index
    trigger_stats,  \* today's trigger_stats row
    now,            \* datetime.now(), minutes
    req,            \* per HTTP worker: position in analyze_multi_timeframe and its locals
    tracker_pc,     \* position of signal_tracking_worker
    be_rows,        \* rows fetched by check_breakeven_conditions, still to process
    oe_rows,        \* rows fetched by check_active_signals, still to process
    tracker_price,  \* the tracker's current_price for the row it is handling
    watcher_pc,     \* position of watcher_loop
    pending,        \* rows fetched by get_pending_triggers, still to process
    watcher_seen,   \* locals of the iteration under way: time of its checks, bar read, reply
    tracker_feed    \* price_feed.json as the tracker's last get_current_price call found it

vars == <<signals, triggers, trigger_stats, now, req, tracker_pc, be_rows, oe_rows,
          tracker_price, watcher_pc, pending, watcher_seen, tracker_feed>>

\* no iteration of process_pending_triggers is under way
NoSeen == [at |-> 0, reading |-> None, outcome |-> NullStr]

\* model_decision remembers the decision the reply carried before any demotion to WAIT
NoAnalysis == [decision |-> "NONE", entry |-> None, sl |-> None, tp |-> None,
               next_trigger |-> None, filter_override |-> FALSE, model_decision |-> "NONE"]
NoResponse == [error |-> NullStr, decision |-> NullStr]
IdleReq == [pc |-> "idle", symbol |-> NullStr, analysis |-> NoAnalysis, resp |-> NoResponse]

Init ==
    /\ signals = <<>>
    /\ triggers = <<>>
    /\ trigger_stats = [created |-> 0, fired |-> 0, expired |-> 0, converted |-> 0]
    /\ now = StartTime
    /\ req = [r \in Requests |-> IdleReq]
    /\ tracker_pc = "sleep"
    /\ be_rows = <<>>
    /\ oe_rows = <<>>
    /\ tracker_price = None
    /\ watcher_pc = "sleep"
    /\ pending = <<>>
    /\ watcher_seen = NoSeen
    /\ tracker_feed = NoFeed

SignalIds == 1..Len(signals)
TriggerIds == 1..Len(triggers)

\* the row ids 1..n in row order
RowIds(n) == [i \in 1..n |-> i]

\* ------------------------------------------------------- signal store
\* INSERT INTO signals: status, result..., breakeven_triggered take the column defaults
save_signal_to_db(sigs, signal_data, ts) ==
    Append(sigs,
      [ timestamp |-> ts,
        symbol |-> signal_data.symbol,
        decision |-> signal_data.decision,
        entry_price |-> signal_data.entry,
        stop_loss |-> signal_data.sl,
        take_profit |-> signal_data.tp,
        status |-> "ACTIVE",
        result |-> NullStr,
        exit_price |-> None,
        exit_timestamp |-> None,
        pnl_pips |-> None,
        duration_minutes |-> None,
        notes |-> NullStr,
        original_stop_loss |-> signal_data.sl,
        current_stop_loss |-> signal_data.sl,
        breakeven_triggered |-> 0,
        breakeven_timestamp |-> None,
        stop_modifications |-> <<>>,
        hypothetical_exit_price |-> None,
        hypothetical_result |-> NullStr,
        hypothetical_pnl_pips |-> None,
        breakeven_impact |-> NullStr ])

\* UPDATE signals SET status='CLOSED', ... WHERE id = ?  (no condition on status)
update_signal_result(sigs, signal_id, result, exit_price, pnl_pips, notes, ts) ==
    IF signal_id \notin 1..Len(sigs) THEN sigs
    ELSE [sigs EXCEPT ![signal_id] =
            [@ EXCEPT !.status = "CLOSED",
                      !.result = result,
                      !.exit_price = Some(exit_price),
                      !.exit_timestamp = Some(ts),
                      !.pnl_pips = Some(pnl_pips),
                      !.duration_minutes = Some(ts - sigs[signal_id].timestamp),
                      !.notes = notes]]

\* UPDATE signals SET status='CLOSED', ... hypothetical_*, breakeven_impact WHERE id = ?
update_signal_with_hypothetical(sigs, signal_id, actual_result, actual_exit, actual_pnl, hyp_result, hyp_exit, hyp_pnl, breakeven_impact, ts) ==
    IF signal_id \notin 1..Len(sigs) THEN sigs
    ELSE [sigs EXCEPT ![signal_id] =
            [@ EXCEPT !.status = "CLOSED",
                      !.result = actual_result,
                      !.exit_price = Some(actual_exit),
                      !.exit_timestamp = Some(ts),
                      !.pnl_pips = Some(actual_pnl),
                      !.duration_minutes = Some(ts - sigs[signal_id].timestamp),
                      !.hypothetical_exit_price = hyp_exit,
                      !.hypothetical_result = hyp_result,
                      !.hypothetical_pnl_pips = Some(hyp_pnl),
                      !.breakeven_impact = breakeven_impact]]

IsActiveTrade(s) == s.status = "ACTIVE" /\ s.decision \in {"BUY", "SELL"}

\* newest ACTIVE BUY/SELL row of the symbol, or none
has_active_signal(sigs, symbol) ==
    \E i \in 1..Len(sigs) : sigs[i].symbol = symbol /\ IsActiveTrade(sigs[i])

\* faulty variant: the UPDATE binds trigger_price where new_stop_loss belongs
update_stop_loss_to_breakeven_swapped(sigs, signal_id, new_stop_loss, trigger_price, ts) ==
    IF signal_id \notin 1..Len(sigs) THEN sigs
    ELSE [sigs EXCEPT ![signal_id] =
            [@ EXCEPT !.current_stop_loss = trigger_price,
                      !.breakeven_triggered = 1,
                      !.breakeven_timestamp = Some(ts),
                      !.stop_modifications =
                          Append(@, [timestamp |-> ts, type |-> "BREAKEVEN",
                                     trigger_price |-> trigger_price,
                                     new_stop_loss |-> new_stop_loss])]]

\* faulty variant: the UPDATE moves original_stop_loss along with current_stop_loss
update_stop_loss_to_breakeven_both(sigs, signal_id, new_stop_loss, trigger_price, ts) ==
    IF signal_id \notin 1..Len(sigs) THEN sigs
    ELSE [sigs EXCEPT ![signal_id] =
            [@ EXCEPT !.current_stop_loss = new_stop_loss,
                      !.original_stop_loss = new_stop_loss,
                      !.breakeven_triggered = 1,
                      !.breakeven_timestamp = Some(ts),
                      !.stop_modifications =
                          Append(@, [timestamp |-> ts, type |-> "BREAKEVEN",
                                     trigger_price |-> trigger_price,
                                     new_stop_loss |-> new_stop_loss])]]

\* UPDATE signals SET current_stop_loss, breakeven_triggered = 1, ... WHERE id = ?
update_stop_loss_to_breakeven(sigs, signal_id, new_stop_loss, trigger_price, ts) ==
    IF signal_id \notin 1..Len(sigs) THEN sigs
    ELSE [sigs EXCEPT ![signal_id] =
            [@ EXCEPT !.current_stop_loss = new_stop_loss,
                      !.breakeven_triggered = 1,
                      !.breakeven_timestamp = Some(ts),
                      !.stop_modifications =
                          Append(@, [timestamp |-> ts, type |-> "BREAKEVEN",
                                     trigger_price |-> trigger_price,
                                     new_stop_loss |-> new_stop_loss])]]

\* the price at which check_breakeven_conditions moves the stop
breakeven_price(decision, entry, original_sl) ==
    IF decision = "BUY" THEN entry + (entry - original_sl)
    ELSE entry - (original_sl - entry)

\* does check_breakeven_conditions move the stop of this row at this price
breakeven_reached(decision, entry, original_sl, current_price) ==
    IF decision = "BUY" THEN current_price >= breakeven_price(decision, entry, original_sl)
    ELSE IF decision = "SELL" THEN current_price <= breakeven_price(decision, entry, original_sl)
    ELSE FALSE

\* faulty variant: breakeven_used is never looked at
calculate_breakeven_impact_unconditional(actual_result, hypothetical_result, actual_pnl, hypothetical_pnl, breakeven_used) ==
    IF hypothetical_result = NullStr THEN "NO_IMPACT"
    ELSE IF actual_result = "BREAKEVEN" /\ hypothetical_result = "LOSS" THEN "SAVED_LOSS"
    ELSE IF actual_result = "BREAKEVEN" /\ hypothetical_result = "WIN" THEN "MISSED_PROFIT"
    ELSE IF actual_result = "WIN" /\ hypothetical_result = "WIN"
         THEN IF actual_pnl < hypothetical_pnl THEN "REDUCED_PROFIT" ELSE "NO_IMPACT"
    ELSE "NO_IMPACT"

\* faulty variant: a hypothetical leg that is still running counts as a profit missed
calculate_breakeven_impact_open_leg(actual_result, hypothetical_result, actual_pnl, hypothetical_pnl, breakeven_used) ==
    IF breakeven_used = 0 THEN "NO_BREAKEVEN_USED"
    ELSE IF actual_result = "BREAKEVEN" /\ hypothetical_result = "LOSS" THEN "SAVED_LOSS"
    ELSE IF actual_result = "BREAKEVEN" THEN "MISSED_PROFIT"
    ELSE IF actual_result = "WIN" /\ hypothetical_result = "WIN"
         THEN IF actual_pnl < hypothetical_pnl THEN "REDUCED_PROFIT" ELSE "NO_IMPACT"
    ELSE "NO_IMPACT"

calculate_breakeven_impact(actual_result, hypothetical_result, actual_pnl, hypothetical_pnl, breakeven_used) ==
    IF breakeven_used = 0 THEN "NO_BREAKEVEN_USED"
    ELSE IF hypothetical_result = NullStr THEN "NO_IMPACT"
    ELSE IF actual_result = "BREAKEVEN" /\ hypothetical_result = "LOSS" THEN "SAVED_LOSS"
    ELSE IF actual_result = "BREAKEVEN" /\ hypothetical_result = "WIN" THEN "MISSED_PROFIT"
    ELSE IF actual_result = "WIN" /\ hypothetical_result = "WIN"
         THEN IF actual_pnl < hypothetical_pnl THEN "REDUCED_PROFIT" ELSE "NO_IMPACT"
    ELSE "NO_IMPACT"

\* faulty variant: the target and the stop count only once the price is strictly past them
actual_exit_strict(decision, entry, effective_sl, tp, current_price) ==
    IF decision = "BUY" THEN
        IF current_price > tp THEN <<"WIN", Some(tp)>>
        ELSE IF current_price < effective_sl
             THEN <<IF effective_sl = entry THEN "BREAKEVEN" ELSE "LOSS", Some(effective_sl)>>
        ELSE <<NullStr, None>>
    ELSE IF decision = "SELL" THEN
        IF current_price < tp THEN <<"WIN", Some(tp)>>
        ELSE IF current_price > effective_sl
             THEN <<IF effective_sl = entry THEN "BREAKEVEN" ELSE "LOSS", Some(effective_sl)>>
        ELSE <<NullStr, None>>
    ELSE <<NullStr, None>>

\* actual exit of check_active_signals: <<result, exit price>>, result NullStr when no exit
actual_exit(decision, entry, effective_sl, tp, current_price) ==
    IF decision = "BUY" THEN
        IF current_price >= tp THEN <<"WIN", Some(tp)>>
        ELSE IF current_price <= effective_sl
             THEN <<IF effective_sl = entry THEN "BREAKEVEN" ELSE "LOSS", Some(effective_sl)>>
        ELSE <<NullStr, None>>
    ELSE IF decision = "SELL" THEN
        IF current_price <= tp THEN <<"WIN", Some(tp)>>
        ELSE IF current_price >= effective_sl
             THEN <<IF effective_sl = entry THEN "BREAKEVEN" ELSE "LOSS", Some(effective_sl)>>
        ELSE <<NullStr, None>>
    ELSE <<NullStr, None>>

\* hypothetical exit of check_active_signals, always against the original stop
hypothetical_exit(decision, original_sl, tp, current_price) ==
    IF decision = "BUY" THEN
        IF current_price >= tp THEN <<"WIN", Some(tp)>>
        ELSE IF current_price <= original_sl THEN <<"LOSS", Some(original_sl)>>
        ELSE <<NullStr, None>>
    ELSE IF decision = "SELL" THEN
        IF current_price <= tp THEN <<"WIN", Some(tp)>>
        ELSE IF current_price >= original_sl THEN <<"LOSS", Some(original_sl)>>
        ELSE <<NullStr, None>>
    ELSE <<NullStr, None>>


\* faulty variant: the SELECT does not ask for breakeven_triggered = 0
breakeven_candidates_all(sigs) ==
    SelectSeq(RowIds(Len(sigs)),
              LAMBDA i : sigs[i].status = "ACTIVE" /\ sigs[i].decision \in {"BUY", "SELL"})

\* the SELECT of check_breakeven_conditions: ACTIVE BUY/SELL rows not yet at breakeven
breakeven_candidates(sigs) ==
    SelectSeq(RowIds(Len(sigs)),
              LAMBDA i : /\ sigs[i].status = "ACTIVE"
                         /\ sigs[i].decision \in {"BUY", "SELL"}
                         /\ sigs[i].breakeven_triggered = 0)

\* ------------------------------------------- signal tracking worker
\* check_breakeven_conditions, the SELECT: ACTIVE BUY/SELL rows not yet at breakeven
BreakevenScan ==
    /\ tracker_pc = "sleep"
    /\ be_rows' = breakeven_candidates(signals)
    /\ tracker_pc' = "breakeven"
    /\ UNCHANGED <<signals, triggers, trigger_stats, now, req, oe_rows, tracker_price, watcher_pc, pending, watcher_seen, tracker_feed>>

\* check_breakeven_conditions, top of a loop iteration: get_current_price(symbol);
\* "if not current_price: continue"
BreakevenPrice(feed) ==
    /\ tracker_pc = "breakeven"
    /\ be_rows # <<>>
    /\ feed \in Feeds(signals[Head(be_rows)].symbol)
    /\ tracker_feed' = feed
    /\ IF get_current_price(feed) = None
       THEN /\ be_rows' = Tail(be_rows)
            /\ UNCHANGED <<tracker_pc, tracker_price>>
       ELSE /\ tracker_price' = get_current_price(feed)
            /\ tracker_pc' = "breakeven_check"
            /\ UNCHANGED be_rows
    /\ UNCHANGED <<signals, triggers, trigger_stats, now, req, oe_rows, watcher_pc, pending, watcher_seen>>

\* the table after check_breakeven_conditions has handled one fetched row at a price
move_to_breakeven(sigs, signal_id, price, ts) ==
    LET s == sigs[signal_id]
    IN  IF breakeven_reached(s.decision, s.entry_price, s.stop_loss, price)
        THEN update_stop_loss_to_breakeven(sigs, signal_id, s.entry_price, price, ts)
        ELSE sigs

\* check_breakeven_conditions over the fetched rows, every symbol quoted k pips from its
\* base price
RECURSIVE breakeven_loop(_, _, _, _)
breakeven_loop(sigs, rows, k, ts) ==
    IF rows = <<>> THEN sigs
    ELSE LET symbol == sigs[Head(rows)].symbol
         IN  breakeven_loop(move_to_breakeven(sigs, Head(rows), Base(symbol) + k * Pip(symbol), ts),
                            Tail(rows), k, ts)

\* one whole pass of check_breakeven_conditions
check_breakeven_conditions(sigs, k, ts) ==
    breakeven_loop(sigs, breakeven_candidates(sigs), k, ts)

\* check_breakeven_conditions, rest of the loop iteration
BreakevenStep ==
    /\ tracker_pc = "breakeven_check"
    /\ signals' = move_to_breakeven(signals, Head(be_rows), Val(tracker_price), now)
    /\ be_rows' = Tail(be_rows)
    /\ tracker_pc' = "breakeven"
    /\ tracker_price' = None
    /\ tracker_feed' = NoFeed
    /\ UNCHANGED <<triggers, trigger_stats, now, req, oe_rows, watcher_pc, pending, watcher_seen>>

\* check_active_signals, the SELECT after the breakeven pass: all ACTIVE BUY/SELL rows
OutcomeScan ==
    /\ tracker_pc = "breakeven"
    /\ be_rows = <<>>
    /\ oe_rows' = [k \in 1..Len(SelectSeq(RowIds(Len(signals)), LAMBDA i : IsActiveTrade(signals[i]))) |->
                     LET i == SelectSeq(RowIds(Len(signals)), LAMBDA j : IsActiveTrade(signals[j]))[k]
                     IN  [id |-> i,
                          effective_sl |-> signals[i].current_stop_loss,
                          breakeven_triggered |-> signals[i].breakeven_triggered]]
    /\ tracker_pc' = "outcome"
    /\ tracker_feed' = NoFeed
    /\ UNCHANGED <<signals, triggers, trigger_stats, now, req, be_rows, tracker_price, watcher_pc, pending, watcher_seen>>

\* the row check_active_signals writes for a fetched row at a price (unchanged table when no exit)
close_on_exit(sigs, row, current_price, ts) ==
    LET s == sigs[row.id]
        act == actual_exit(s.decision, s.entry_price, row.effective_sl, s.take_profit,
                           current_price)
        hyp == hypothetical_exit(s.decision, s.stop_loss, s.take_profit, current_price)
        actual_pnl == calculate_pips(s.entry_price, Val(act[2]), s.symbol, s.decision)
        hypothetical_pnl ==
            IF hyp[1] # NullStr /\ hyp[2] # None /\ Val(hyp[2]) # 0
            THEN calculate_pips(s.entry_price, Val(hyp[2]), s.symbol, s.decision)
            ELSE 0
    IN  IF act[1] = NullStr THEN sigs
        ELSE update_signal_with_hypothetical(sigs, row.id, act[1], Val(act[2]), actual_pnl,
                 hyp[1], hyp[2], hypothetical_pnl,
                 calculate_breakeven_impact(act[1], hyp[1], actual_pnl, hypothetical_pnl,
                                            row.breakeven_triggered),
                 ts)

\* check_active_signals, top of a loop iteration: get_current_price(symbol);
\* "if not current_price: continue"
OutcomePrice(feed) ==
    /\ tracker_pc = "outcome"
    /\ oe_rows # <<>>
    /\ feed \in Feeds(signals[Head(oe_rows).id].symbol)
    /\ tracker_feed' = feed
    /\ IF get_current_price(feed) = None
       THEN /\ oe_rows' = Tail(oe_rows)
            /\ UNCHANGED <<tracker_pc, tracker_price>>
       ELSE /\ tracker_price' = get_current_price(feed)
            /\ tracker_pc' = "outcome_check"
            /\ UNCHANGED oe_rows
    /\ UNCHANGED <<signals, triggers, trigger_stats, now, req, be_rows, watcher_pc, pending, watcher_seen>>

\* check_active_signals, rest of the loop iteration
OutcomeStep ==
    /\ tracker_pc = "outcome_check"
    /\ signals' = close_on_exit(signals, Head(oe_rows), Val(tracker_price), now)
    /\ oe_rows' = Tail(oe_rows)
    /\ tracker_pc' = "outcome"
    /\ tracker_price' = None
    /\ tracker_feed' = NoFeed
    /\ UNCHANGED <<triggers, trigger_stats, now, req, be_rows, watcher_pc, pending, watcher_seen>>

\* signal_tracking_worker: the pass is over, time.sleep(PRICE_UPDATE_INTERVAL)
TrackerSleep ==
    /\ tracker_pc = "outcome"
    /\ oe_rows = <<>>
    /\ tracker_pc' = "sleep"
    /\ tracker_feed' = NoFeed
    /\ UNCHANGED <<signals, triggers, trigger_stats, now, req, be_rows, oe_rows, tracker_price, watcher_pc, pending, watcher_seen>>

\* ------------------------------------------------ POST /signal/<id>/close
\* what a manual close request may carry: <<result, exit price offset in pips>>
ManualCloses == {<<"WIN", 50>>, <<"LOSS", -20>>}

close_signal_manually(sigs, signal_id, result, exit_price, ts) ==
    IF signal_id \notin 1..Len(sigs) THEN sigs
    ELSE update_signal_result(sigs, signal_id, result, exit_price,
             calculate_pips(sigs[signal_id].entry_price, exit_price,
                            sigs[signal_id].symbol, sigs[signal_id].decision),
             "", ts)

CloseManually(signal_id, result, exit_price) ==
    /\ signal_id \in SignalIds
    /\ signals' = close_signal_manually(signals, signal_id, result, exit_price, now)
    /\ UNCHANGED <<triggers, trigger_stats, now, req, tracker_pc, be_rows, oe_rows,
                   tracker_price, watcher_pc, pending, watcher_seen, tracker_feed>>

\* ---------------------------------------------------------------- clock
Tick ==
    /\ now + TickStep <= StartTime + MaxTicks * TickStep
    /\ now' = now + TickStep
    /\ UNCHANGED <<signals, triggers, trigger_stats, req, tracker_pc, be_rows, oe_rows,
                   tracker_price, watcher_pc, pending, watcher_seen, tracker_feed>>


\* ------------------------------------------------------ trigger store
update_trigger_stats(stats, event_type) ==
    IF event_type = "created" THEN [stats EXCEPT !.created = @ + 1]
    ELSE IF event_type = "fired" THEN [stats EXCEPT !.fired = @ + 1]
    ELSE IF event_type = "expired" THEN [stats EXCEPT !.expired = @ + 1]
    ELSE IF event_type = "converted" THEN [stats EXCEPT !.converted = @ + 1]
    ELSE stats

\* faulty variant: the table has the minute timeframes only, the hour ones get the default
tf_minutes_no_hours(timeframe) ==
    IF timeframe = "M15" THEN 15
    ELSE IF timeframe = "M30" THEN 30
    ELSE 15
tf_minutes(timeframe) ==
    IF timeframe = "M15" THEN 15
    ELSE IF timeframe = "M30" THEN 30
    ELSE IF timeframe = "H1" THEN 60
    ELSE IF timeframe = "H4" THEN 240
    ELSE 15

\* the checks of save_trigger before it opens the database
trigger_accepted(analysis) ==
    /\ analysis.decision = "WAIT"
    /\ analysis.next_trigger # None
    /\ Val(analysis.next_trigger).type # "none"
    /\ \A field \in {"type", "timeframe", "level", "direction"} :
           field \in DOMAIN Val(analysis.next_trigger)

\* faulty variant: the UPDATE has no symbol in its WHERE clause
supersede_pending_all(trigs, symbol, ts) ==
    [i \in 1..Len(trigs) |->
        IF trigs[i].status = "PENDING"
        THEN [trigs[i] EXCEPT !.status = "SUPERSEDED", !.consumed_at = Some(ts)]
        ELSE trigs[i]]

\* faulty variant: the INSERT runs without the UPDATE that supersedes the old row
supersede_pending_skipped(trigs, symbol, ts) == trigs

\* UPDATE triggers SET status='SUPERSEDED' WHERE symbol=? AND status='PENDING'
supersede_pending(trigs, symbol, ts) ==
    [i \in 1..Len(trigs) |->
        IF trigs[i].symbol = symbol /\ trigs[i].status = "PENDING"
        THEN [trigs[i] EXCEPT !.status = "SUPERSEDED", !.consumed_at = Some(ts)]
        ELSE trigs[i]]

\* save_trigger: the UPDATE and the INSERT commit together (one connection, one commit)
save_trigger(trigs, symbol, analysis, ts) ==
    IF ~trigger_accepted(analysis) THEN trigs
    ELSE LET next_trigger == Val(analysis.next_trigger)
             expiry_bars == IF "expiry_bars" \in DOMAIN next_trigger
                            THEN next_trigger.expiry_bars ELSE 8
         IN  Append(supersede_pending(trigs, symbol, ts),
                    [ symbol |-> symbol,
                      created_at |-> ts,
                      trigger |-> next_trigger,
                      setup_type |-> next_trigger.type,
                      expiry_ts |-> ts + tf_minutes(next_trigger.timeframe) * expiry_bars,
                      status |-> "PENDING",
                      consumed_at |-> None,
                      result |-> NullStr,
                      fire_reason |-> NullStr ])

\* faulty variant: a trade signal clears only the triggers that point its own way
clear_pending_triggers_same_direction(trigs, symbol, reason, ts) ==
    [i \in 1..Len(trigs) |->
        IF /\ trigs[i].symbol = symbol
           /\ trigs[i].status = "PENDING"
           /\ (reason = "Trade signal: BUY") = (trigs[i].trigger.direction \in {"above", "bullish"})
        THEN [trigs[i] EXCEPT !.status = "CLEARED", !.consumed_at = Some(ts),
                              !.fire_reason = reason]
        ELSE trigs[i]]

\* UPDATE triggers SET status='CLEARED', fire_reason=? WHERE symbol=? AND status='PENDING'
clear_pending_triggers(trigs, symbol, reason, ts) ==
    [i \in 1..Len(trigs) |->
        IF trigs[i].symbol = symbol /\ trigs[i].status = "PENDING"
        THEN [trigs[i] EXCEPT !.status = "CLEARED", !.consumed_at = Some(ts),
                              !.fire_reason = reason]
        ELSE trigs[i]]

\* UPDATE triggers SET status=?, consumed_at=?, result=?, fire_reason=? WHERE id=?
mark_trigger_status(trigs, trigger_id, status, result, fire_reason, ts) ==
    IF trigger_id \notin 1..Len(trigs) THEN trigs
    ELSE [trigs EXCEPT ![trigger_id] =
            [@ EXCEPT !.status = status, !.consumed_at = Some(ts),
                      !.result = result, !.fire_reason = fire_reason]]

\* faulty variant: a conversion is counted as converted in place of fired
mark_trigger_stats_converted_only(stats, status, result) ==
    IF status = "EXPIRED" THEN update_trigger_stats(stats, "expired")
    ELSE IF status = "CONSUMED"
         THEN IF result \in {"BUY", "SELL"}
              THEN update_trigger_stats(stats, "converted")
              ELSE update_trigger_stats(stats, "fired")
    ELSE stats

\* the counters mark_trigger_status bumps after its commit
mark_trigger_stats(stats, status, result) ==
    IF status = "EXPIRED" THEN update_trigger_stats(stats, "expired")
    ELSE IF status = "CONSUMED"
         THEN IF result \in {"BUY", "SELL"}
              THEN update_trigger_stats(update_trigger_stats(stats, "fired"), "converted")
              ELSE update_trigger_stats(stats, "fired")
    ELSE stats

\* The <<price, level>> pairs of the prices and levels used here that lie exactly half a
\* pip apart and for which abs(current_price - level) <= slop is False in the doubles the
\* code computes with: abs(1.1 - 1.09995) = 5.0000000000105516e-05 > 5e-05 = 0.5 / 10000.
\* (abs(1.1 - 1.10005), abs(1950.0 - 1949.95) and abs(1950.0 - 1950.05) compare True.)
HalfPipRoundedOut == {<<110000, 109995>>}

\* abs(current_price - level) <= slop with slop = 0.5 / pip_mult, as the doubles decide it:
\* off the half-pip line the exact comparison, on it the rounding of the operands
within_slop(current_price, level, symbol) ==
    LET twice == 2 * Abs(current_price - level) * get_pip_multiplier(symbol)
    IN  IF twice = PriceScale THEN <<current_price, level>> \notin HalfPipRoundedOut
        ELSE twice < PriceScale

\* eval_trigger on one price reading: <<met, reason>>; slop is 0.5 pip
eval_trigger(trigger, symbol, reading) ==
    IF reading = None THEN <<FALSE, "No price data available">>
    ELSE LET current_price == Val(reading)
             level == trigger.level
             near == within_slop(current_price, level, symbol)
         IN  IF trigger.type = "level_break" THEN
                 IF trigger.direction = "above" /\ current_price > level
                     THEN <<TRUE, "is above">>
                 ELSE IF trigger.direction = "below" /\ current_price < level
                     THEN <<TRUE, "is below">>
                 ELSE <<FALSE, "Condition not met">>
             ELSE IF trigger.type = "retest_hold" THEN
                 IF trigger.direction = "bullish" /\ near /\ current_price >= level
                     THEN <<TRUE, "retesting (bullish)">>
                 ELSE IF trigger.direction = "bearish" /\ near /\ current_price <= level
                     THEN <<TRUE, "retesting (bearish)">>
                 ELSE <<FALSE, "Condition not met">>
             ELSE IF trigger.type = "range_edge_reject" THEN
                 IF trigger.direction = "bullish" /\ near
                     THEN <<TRUE, "near support">>
                 ELSE IF trigger.direction = "bearish" /\ near
                     THEN <<TRUE, "near resistance">>
                 ELSE <<FALSE, "Condition not met">>
             ELSE IF trigger.type = "ema_retouch" THEN
                 IF near THEN <<TRUE, "touching EMA">>
                 ELSE <<FALSE, "Condition not met">>
             ELSE <<FALSE, "Condition not met">>

\* ------------------------------------------------- admission controller
\* faulty variant: the SELECT has no ORDER BY and reads the oldest closed row
is_symbol_analysis_allowed_unordered(sigs, symbol, ts) ==
    LET closed == {i \in 1..Len(sigs) : /\ sigs[i].symbol = symbol
                                        /\ sigs[i].status = "CLOSED"
                                        /\ sigs[i].exit_timestamp # None}
    IN  IF closed = {} THEN TRUE
        ELSE LET first == CHOOSE i \in closed : \A j \in closed : i <= j
             IN  ~(ts - Val(sigs[first].exit_timestamp) < 60)

\* cooldown gate: an hour since the newest exit_timestamp of the symbol
is_symbol_analysis_allowed(sigs, symbol, ts) ==
    LET closed == {i \in 1..Len(sigs) : /\ sigs[i].symbol = symbol
                                        /\ sigs[i].status = "CLOSED"
                                        /\ sigs[i].exit_timestamp # None}
    IN  IF closed = {} THEN TRUE
        ELSE LET last == CHOOSE i \in closed :
                            \A j \in closed : Val(sigs[j].exit_timestamp) <= Val(sigs[i].exit_timestamp)
             IN  ~(ts - Val(sigs[last].exit_timestamp) < 60)

Day(ts) == ts \div 1440

get_daily_net_wins(sigs, ts) ==
    LET today == {i \in 1..Len(sigs) : sigs[i].status = "CLOSED" /\ Day(sigs[i].timestamp) = Day(ts)}
    IN  Cardinality({i \in today : sigs[i].result = "WIN"})
          - Cardinality({i \in today : sigs[i].result = "LOSS"})

get_risky_active_trades(sigs) ==
    Cardinality({i \in 1..Len(sigs) : sigs[i].status = "ACTIVE" /\ sigs[i].breakeven_triggered = 0})

is_daily_analysis_allowed(sigs, ts) ==
    ~(get_daily_net_wins(sigs, ts) >= 3 /\ get_risky_active_trades(sigs) = 0)

\* --------------------------------------------------- analysis pipeline
\* parse_ai_response on the decoded reply; decision "NONE" stands for a None return
parse_ai_response(raw) ==
    IF ~raw.ok \/ raw.decision \notin {"BUY", "SELL", "WAIT"} THEN NoAnalysis
    ELSE [decision |-> IF raw.decision \in {"BUY", "SELL"}
                          /\ (raw.entry = None \/ raw.sl = None \/ raw.tp = None)
                       THEN "WAIT" ELSE raw.decision,
          entry |-> raw.entry, sl |-> raw.sl, tp |-> raw.tp,
          next_trigger |-> raw.next_trigger, filter_override |-> FALSE,
          model_decision |-> raw.decision]

\* validate_signal_before_execution for a BUY/SELL with entry, sl and tp present
validate_signal_before_execution(signal, symbol, rsi) ==
    LET entry == Val(signal.entry)
        sl == Val(signal.sl)
        tp == Val(signal.tp)
        risk == Abs(entry - sl)
        reward == Abs(tp - entry)
        \* stop_size_pips = |entry - sl| * pip_multiplier, compared in price units
        stop_size == risk * get_pip_multiplier(symbol)
    IN  IF signal.decision = "BUY" /\ rsi > 75 THEN "RSI_OVERBOUGHT"
        ELSE IF signal.decision = "SELL" /\ rsi < 25 THEN "RSI_OVERSOLD"
        ELSE IF risk = 0 \/ 2 * reward < 3 * risk THEN "RISK_REWARD_TOO_LOW"
        ELSE IF stop_size < 10 * PriceScale THEN "STOP_LOSS_TOO_TIGHT"
        ELSE IF stop_size > 100 * PriceScale THEN "STOP_LOSS_TOO_WIDE"
        ELSE "PASSED_ALL_FILTERS"

\* the analysis as it stands after the hard filters
apply_filters(analysis, symbol, rsi) ==
    IF analysis.decision \in {"BUY", "SELL"}
       /\ validate_signal_before_execution(analysis, symbol, rsi) # "PASSED_ALL_FILTERS"
    THEN [analysis EXCEPT !.decision = "WAIT", !.filter_override = TRUE]
    ELSE analysis


\* ------------------------------------- POST /analyze_multi_timeframe
InFlight == {r \in Requests : req[r].pc # "idle"}

\* faulty variant: every rejection carries the same reason
Reject_generic(r, error) ==
    req' = [req EXCEPT ![r] = [pc |-> "done", symbol |-> @.symbol, analysis |-> NoAnalysis,
                               resp |-> [error |-> "Analysis blocked", decision |-> "WAIT"]]]

Reject(r, error) ==
    req' = [req EXCEPT ![r] = [pc |-> "done", symbol |-> @.symbol, analysis |-> NoAnalysis,
                               resp |-> [error |-> error, decision |-> "WAIT"]]]

\* request arrives; gate 1: ENABLE_SIGNAL_BLOCKING and has_active_signal
AnalyzeGateActive(r, symbol) ==
    /\ req[r].pc = "idle"
    /\ IF ENABLE_SIGNAL_BLOCKING /\ has_active_signal(signals, symbol)
       THEN req' = [req EXCEPT ![r] =
                      [pc |-> "done", symbol |-> symbol, analysis |-> NoAnalysis,
                       resp |-> [error |-> "Symbol already has active signal",
                                 decision |-> "WAIT"]]]
       ELSE req' = [req EXCEPT ![r] = [IdleReq EXCEPT !.pc = "cooldown", !.symbol = symbol]]
    /\ UNCHANGED <<signals, triggers, trigger_stats, now, tracker_pc, be_rows, oe_rows,
                   tracker_price, watcher_pc, pending, watcher_seen, tracker_feed>>

\* gate 2: is_symbol_analysis_allowed
AnalyzeGateCooldown(r) ==
    /\ req[r].pc = "cooldown"
    /\ IF ~is_symbol_analysis_allowed(signals, req[r].symbol, now)
       THEN Reject(r, "Symbol in cooldown period")
       ELSE req' = [req EXCEPT ![r].pc = "daily"]
    /\ UNCHANGED <<signals, triggers, trigger_stats, now, tracker_pc, be_rows, oe_rows,
                   tracker_price, watcher_pc, pending, watcher_seen, tracker_feed>>

\* gate 3: is_daily_analysis_allowed
AnalyzeGateDaily(r) ==
    /\ req[r].pc = "daily"
    /\ IF ~is_daily_analysis_allowed(signals, now)
       THEN Reject(r, "Daily analysis limit reached")
       ELSE req' = [req EXCEPT ![r].pc = "risky"]
    /\ UNCHANGED <<signals, triggers, trigger_stats, now, tracker_pc, be_rows, oe_rows,
                   tracker_price, watcher_pc, pending, watcher_seen, tracker_feed>>

\* faulty variant: the ceiling is reached with the third risky trade
AnalyzeGateRisky_inclusive(r) ==
    /\ req[r].pc = "risky"
    /\ IF get_risky_active_trades(signals) >= 3
       THEN Reject(r, "Too many risky active trades")
       ELSE req' = [req EXCEPT ![r].pc = "model"]
    /\ UNCHANGED <<signals, triggers, trigger_stats, now, tracker_pc, be_rows, oe_rows,
                   tracker_price, watcher_pc, pending, watcher_seen, tracker_feed>>

\* gate 4: more than 3 risky active trades
AnalyzeGateRisky(r) ==
    /\ req[r].pc = "risky"
    /\ IF get_risky_active_trades(signals) > 3
       THEN Reject(r, "Too many risky active trades")
       ELSE req' = [req EXCEPT ![r].pc = "model"]
    /\ UNCHANGED <<signals, triggers, trigger_stats, now, tracker_pc, be_rows, oe_rows,
                   tracker_price, watcher_pc, pending, watcher_seen, tracker_feed>>

\* the model call, parse_ai_response and the hard filters
AnalyzeModel(r, raw, rsi) ==
    /\ req[r].pc = "model"
    /\ LET parsed == parse_ai_response(raw)
       IN  IF parsed.decision = "NONE"
           THEN req' = [req EXCEPT ![r] =
                          [pc |-> "done", symbol |-> @.symbol, analysis |-> NoAnalysis,
                           resp |-> [error |-> "Invalid JSON response from Claude",
                                     decision |-> NullStr]]]
           ELSE req' = [req EXCEPT ![r].pc = "triggers",
                                   ![r].analysis = apply_filters(parsed, req[r].symbol, rsi)]
    /\ UNCHANGED <<signals, triggers, trigger_stats, now, tracker_pc, be_rows, oe_rows,
                   tracker_price, watcher_pc, pending, watcher_seen, tracker_feed>>

\* what get_risky_active_trades returns as risky_count when its query raises
risky_count_on_error == 999

\* gate 3 when the query of get_risky_active_trades raises inside is_daily_analysis_allowed
AnalyzeGateDailyLookupFailed(r) ==
    /\ req[r].pc = "daily"
    /\ IF get_daily_net_wins(signals, now) >= 3 /\ risky_count_on_error = 0
       THEN Reject(r, "Daily analysis limit reached")
       ELSE req' = [req EXCEPT ![r].pc = "risky"]
    /\ UNCHANGED <<signals, triggers, trigger_stats, now, tracker_pc, be_rows, oe_rows,
                   tracker_price, watcher_pc, pending, watcher_seen, tracker_feed>>

\* gate 4 when the query of get_risky_active_trades raises
AnalyzeGateRiskyLookupFailed(r) ==
    /\ req[r].pc = "risky"
    /\ IF risky_count_on_error > 3
       THEN Reject(r, "Too many risky active trades")
       ELSE req' = [req EXCEPT ![r].pc = "model"]
    /\ UNCHANGED <<signals, triggers, trigger_stats, now, tracker_pc, be_rows, oe_rows,
                   tracker_price, watcher_pc, pending, watcher_seen, tracker_feed>>

\* "V2.3: Handle triggers based on decision": clear on BUY/SELL, save on WAIT
AnalyzeTriggers(r) ==
    /\ req[r].pc = "triggers"
    /\ LET a == req[r].analysis
           symbol == req[r].symbol
       IN  IF a.decision \in {"BUY", "SELL"} /\ ~a.filter_override
           THEN /\ triggers' = clear_pending_triggers(triggers, symbol,
                                   IF a.decision = "BUY" THEN "Trade signal: BUY"
                                   ELSE "Trade signal: SELL", now)
                /\ trigger_stats' = trigger_stats
                /\ req' = [req EXCEPT ![r].pc = "signal"]
           ELSE /\ triggers' = IF a.decision = "WAIT"
                               THEN save_trigger(triggers, symbol, a, now) ELSE triggers
                /\ trigger_stats' = IF a.decision = "WAIT" /\ trigger_accepted(a)
                                    THEN update_trigger_stats(trigger_stats, "created")
                                    ELSE trigger_stats
                /\ req' = [req EXCEPT ![r] =
                             [pc |-> "done", symbol |-> symbol, analysis |-> NoAnalysis,
                              resp |-> [error |-> NullStr, decision |-> a.decision]]]
    /\ UNCHANGED <<signals, now, tracker_pc, be_rows, oe_rows, tracker_price, watcher_pc, pending, watcher_seen, tracker_feed>>

\* "Save valid BUY/SELL signals to database"; when the INSERT raises (inserted = FALSE)
\* save_signal_to_db logs, returns None, and the handler answers all the same
AnalyzeSaveSignal(r, inserted) ==
    /\ req[r].pc = "signal"
    /\ LET a == req[r].analysis
       IN  /\ signals' = IF inserted
                         THEN save_signal_to_db(signals,
                                 [symbol |-> req[r].symbol, decision |-> a.decision,
                                  entry |-> Val(a.entry), sl |-> Val(a.sl), tp |-> Val(a.tp)], now)
                         ELSE signals
           /\ req' = [req EXCEPT ![r] =
                        [pc |-> "done", symbol |-> @.symbol, analysis |-> NoAnalysis,
                         resp |-> [error |-> NullStr, decision |-> a.decision]]]
    /\ UNCHANGED <<triggers, trigger_stats, now, tracker_pc, be_rows, oe_rows,
                   tracker_price, watcher_pc, pending, watcher_seen, tracker_feed>>

\* the response has been sent; the worker is free again
AnalyzeReturn(r) ==
    /\ req[r].pc = "done"
    /\ req' = [req EXCEPT ![r] = IdleReq]
    /\ UNCHANGED <<signals, triggers, trigger_stats, now, tracker_pc, be_rows, oe_rows,
                   tracker_price, watcher_pc, pending, watcher_seen, tracker_feed>>

\* ------------------------------------------------------ trigger watcher
\* faulty variant: the session is held open until 22:00
is_valid_trading_time_late(ts) == LET current_hour == (ts \div 60) % 24
                                  IN  6 <= current_hour /\ current_hour < 22
is_valid_trading_time(ts) == LET current_hour == (ts \div 60) % 24
                             IN  6 <= current_hour /\ current_hour < 20
is_news_window(symbol) == FALSE

ReanalysisOutcomes == {"BUY", "SELL", "WAIT", "FAIL"}

\* get_pending_triggers; process_pending_triggers returns at once when there are none
WatcherScan ==
    /\ watcher_pc = "sleep"
    /\ pending' = SelectSeq(RowIds(Len(triggers)), LAMBDA i : triggers[i].status = "PENDING")
    /\ watcher_pc' = IF pending' = <<>> THEN "sleep" ELSE "process"
    /\ UNCHANGED <<signals, triggers, trigger_stats, now, req, tracker_pc, be_rows, oe_rows, tracker_price, watcher_seen, tracker_feed>>

\* faulty variant: the expiry timestamp is not looked at
trigger_verdict_no_expiry(t, ts, reading, outcome) ==
    IF ~is_valid_trading_time(ts) THEN <<NullStr, NullStr, NullStr>>
    ELSE IF is_news_window(t.symbol) THEN <<NullStr, NullStr, NullStr>>
    ELSE LET ev == eval_trigger(t.trigger, t.symbol, reading)
         IN  IF ~ev[1] THEN <<NullStr, NullStr, NullStr>>
             ELSE IF outcome = "FAIL" THEN <<"CONSUMED", "ERROR", ev[2]>>
             ELSE <<"CONSUMED", outcome, ev[2]>>

\* faulty variant: the session check comes before the expiry check
trigger_verdict_session_first(t, ts, reading, outcome) ==
    IF ~is_valid_trading_time(ts) THEN <<NullStr, NullStr, NullStr>>
    ELSE IF ts > t.expiry_ts THEN <<"EXPIRED", NullStr, NullStr>>
    ELSE IF is_news_window(t.symbol) THEN <<NullStr, NullStr, NullStr>>
    ELSE LET ev == eval_trigger(t.trigger, t.symbol, reading)
         IN  IF ~ev[1] THEN <<NullStr, NullStr, NullStr>>
             ELSE IF outcome = "FAIL" THEN <<"CONSUMED", "ERROR", ev[2]>>
             ELSE <<"CONSUMED", outcome, ev[2]>>

\* faulty variant: a re-analysis that still says WAIT leaves the trigger alone
trigger_verdict_wait_skipped(t, ts, reading, outcome) ==
    IF ts > t.expiry_ts THEN <<"EXPIRED", NullStr, NullStr>>
    ELSE IF ~is_valid_trading_time(ts) THEN <<NullStr, NullStr, NullStr>>
    ELSE IF is_news_window(t.symbol) THEN <<NullStr, NullStr, NullStr>>
    ELSE LET ev == eval_trigger(t.trigger, t.symbol, reading)
         IN  IF ~ev[1] \/ outcome = "WAIT" THEN <<NullStr, NullStr, NullStr>>
             ELSE IF outcome = "FAIL" THEN <<"CONSUMED", "ERROR", ev[2]>>
             ELSE <<"CONSUMED", outcome, ev[2]>>

\* what one iteration of process_pending_triggers writes: <<status, result, fire_reason>>,
\* status NullStr when the iteration writes nothing
trigger_verdict(t, ts, reading, outcome) ==
    IF ts > t.expiry_ts THEN <<"EXPIRED", NullStr, NullStr>>
    ELSE IF ~is_valid_trading_time(ts) THEN <<NullStr, NullStr, NullStr>>
    ELSE IF is_news_window(t.symbol) THEN <<NullStr, NullStr, NullStr>>
    ELSE LET ev == eval_trigger(t.trigger, t.symbol, reading)
         IN  IF ~ev[1] THEN <<NullStr, NullStr, NullStr>>
             ELSE IF outcome = "FAIL" THEN <<"CONSUMED", "ERROR", ev[2]>>
             ELSE <<"CONSUMED", outcome, ev[2]>>

\* does the iteration get as far as eval_trigger
trigger_evaluated(t, ts) ==
    ~(ts > t.expiry_ts) /\ is_valid_trading_time(ts) /\ ~is_news_window(t.symbol)

\* process_pending_triggers, one iteration of the for loop up to the write: the expiry,
\* session and news checks, then, when it gets that far, the bar eval_trigger reads and,
\* when the condition is met, what re_analyze_with_trigger returns
WatcherEval(reading, outcome) ==
    /\ watcher_pc = "process"
    /\ pending # <<>>
    /\ LET t == triggers[Head(pending)]
       IN  /\ IF trigger_evaluated(t, now)
              THEN reading \in PriceReadings(t.symbol)
              ELSE reading = None
           /\ IF trigger_evaluated(t, now) /\ eval_trigger(t.trigger, t.symbol, reading)[1]
              THEN outcome \in ReanalysisOutcomes
              ELSE outcome = NullStr
    /\ watcher_seen' = [at |-> now, reading |-> reading, outcome |-> outcome]
    /\ watcher_pc' = "mark"
    /\ UNCHANGED <<signals, triggers, trigger_stats, now, req, tracker_pc, be_rows, oe_rows, tracker_price, pending, tracker_feed>>

\* faulty variant: the trade of a converted trigger is stored as a signal
log_trade_signal_saved(sigs, symbol, decision, ts) ==
    save_signal_to_db(sigs,
        [symbol |-> symbol, decision |-> decision, entry |-> Base(symbol),
         sl |-> Base(symbol) + (IF decision = "BUY" THEN -20 ELSE 20) * Pip(symbol),
         tp |-> Base(symbol) + (IF decision = "BUY" THEN 50 ELSE -50) * Pip(symbol)], ts)

\* log_trade_signal(symbol, result, from_trigger=True): log lines only ("TODO: Add your
\* trade execution logic here"); the signals table stays as it is
log_trade_signal(sigs, symbol, decision, ts) == sigs

\* process_pending_triggers, the write of the iteration (mark_trigger_status), or none
WatcherStep ==
    /\ watcher_pc = "mark"
    /\ LET trigger_id == Head(pending)
           t == triggers[trigger_id]
           v == trigger_verdict(t, watcher_seen.at, watcher_seen.reading, watcher_seen.outcome)
       IN  /\ triggers' = IF v[1] = NullStr THEN triggers
                          ELSE mark_trigger_status(triggers, trigger_id, v[1], v[2], v[3], now)
           /\ trigger_stats' = IF v[1] = NullStr THEN trigger_stats
                               ELSE mark_trigger_stats(trigger_stats, v[1], v[2])
           /\ signals' = IF v[1] = "CONSUMED" /\ v[2] \in {"BUY", "SELL"}
                         THEN log_trade_signal(signals, t.symbol, v[2], now)
                         ELSE signals
    /\ pending' = Tail(pending)
    /\ watcher_seen' = NoSeen
    /\ watcher_pc' = IF Tail(pending) = <<>> THEN "sleep" ELSE "process"
    /\ UNCHANGED <<now, req, tracker_pc, be_rows, oe_rows, tracker_price, tracker_feed>>

\* ------------------------------------------------------- specification
AnyReading == UNION {PriceReadings(sym) : sym \in Symbols}
AnyFeed == UNION {Feeds(sym) : sym \in Symbols}

\* the signal tracking worker
TrackerNext ==
    \/ BreakevenScan
    \/ \E feed \in AnyFeed : BreakevenPrice(feed)
    \/ BreakevenStep
    \/ OutcomeScan
    \/ \E feed \in AnyFeed : OutcomePrice(feed)
    \/ OutcomeStep
    \/ TrackerSleep

\* the trigger watcher
WatcherNext ==
    \/ WatcherScan
    \/ \E reading \in AnyReading, outcome \in ReanalysisOutcomes \cup {NullStr} :
          WatcherEval(reading, outcome)
    \/ WatcherStep

ManualNext(closes) ==
    \E id \in SignalIds, m \in closes :
        CloseManually(id, m[1], Base(signals[id].symbol) + m[2] * Pip(signals[id].symbol))

\* room left in the two tables for one more request
Room(maxSignals, maxTriggers) ==
    /\ Len(signals) + Cardinality(InFlight) < maxSignals
    /\ Len(triggers) + Cardinality(InFlight) < maxTriggers

\* analysis requests served by the given workers, for the symbols of DOMAIN outputs, the
\* model replying from outputs[symbol]
AnalyzeNext(workers, outputs, maxSignals, maxTriggers) ==
    \/ \E r \in workers, symbol \in DOMAIN outputs :
          Room(maxSignals, maxTriggers) /\ AnalyzeGateActive(r, symbol)
    \/ \E r \in workers : AnalyzeGateCooldown(r)
    \/ \E r \in workers : AnalyzeGateDaily(r)
    \/ \E r \in workers : AnalyzeGateRisky(r)
    \/ \E r \in workers, rsi \in RsiValues :
          /\ req[r].pc = "model"
          /\ \E raw \in outputs[req[r].symbol] : AnalyzeModel(r, raw, rsi)
    \/ \E r \in workers : AnalyzeTriggers(r)
    \/ \E r \in workers, inserted \in BOOLEAN : AnalyzeSaveSignal(r, inserted)
    \/ \E r \in workers : AnalyzeReturn(r)

\* The signal store with concurrent requests: two HTTP workers, the tracker and manual
\* closes, all within one minute; the model replies BUY or SELL.
SignalOutputs == [symbol \in Symbols |-> TradeOutputs(symbol, PlainShapes)]
NextSignals ==
    \/ TrackerNext
    \/ ManualNext({<<"LOSS", -20>>})
    \/ AnalyzeNext(Requests, SignalOutputs, MaxSignals, MaxTriggers)

SpecSignals == Init /\ [][NextSignals]_vars

\* The life of a signal over every reply shape (stop and target on either side of
\* entry): one HTTP worker, the tracker, manual closes and the clock.
TrackedOutputs ==
    [symbol \in Symbols |-> TradeOutputs(symbol, AllShapes) \cup BadOutputs(symbol)]
NextTracked ==
    \/ TrackerNext
    \/ ManualNext(ManualCloses)
    \/ Tick
    \/ AnalyzeNext({"r1"}, TrackedOutputs, MaxTracked, MaxTriggers)

SpecTracked == Init /\ [][NextTracked]_vars

\* The trigger store: two HTTP workers (WAIT replies save, BUY/SELL replies clear),
\* the watcher, manual closes and the clock.
TriggerOutputs ==
    [symbol \in Symbols |-> TradeOutputs(symbol, PlainShapes)
                              \cup WaitOutputs(symbol) \cup HedgedOutputs(symbol)
                              \cup BadOutputs(symbol)]
NextTriggers ==
    \/ WatcherNext
    \/ ManualNext({<<"LOSS", -20>>})
    \/ Tick
    \/ AnalyzeNext(Requests, TriggerOutputs, MaxSignals, MaxTriggers)

SpecTriggers == Init /\ [][NextTriggers]_vars

\* The admission gates: the server starts on a signals table left by earlier runs
\* (init_database keeps existing rows) and one HTTP worker serves requests.
\* the symbol of the j-th row an earlier run left; EURUSD was traded twice
GateSymbols == <<"EURUSD", "XAUUSD", "EURUSD", "GBPUSD">>
GateRequestSymbols == {GateSymbols[j] : j \in 1..Len(GateSymbols)} \cup {"AUDUSD"}

\* what became of a signal of an earlier run
GateKinds == {"risky", "protected", "won40", "won60", "won61", "lost61", "won_before"}

\* the table after an earlier run opened a BUY for the symbol and the tracker handled it:
\* still open at its stop, moved to breakeven, or closed at target or stop 40, 60 or 61
\* minutes before the start; won_before was opened the day before
AddGateRow(sigs, symbol, kind) ==
    LET entry == Base(symbol)
        sl == entry - 20 * Pip(symbol)
        tp == entry + 50 * Pip(symbol)
        opened_at == IF kind = "won_before" THEN StartTime - 20 * 60 ELSE StartTime - 2 * 60
        opened == save_signal_to_db(sigs,
                      [symbol |-> symbol, decision |-> "BUY", entry |-> entry, sl |-> sl,
                       tp |-> tp], opened_at)
        row == [id |-> Len(opened), effective_sl |-> sl, breakeven_triggered |-> 0]
    IN  IF kind = "risky" THEN opened
        ELSE IF kind = "protected"
             THEN move_to_breakeven(opened, row.id, entry + 20 * Pip(symbol), StartTime - 90)
        ELSE IF kind = "won40" THEN close_on_exit(opened, row, tp, StartTime - 40)
        ELSE IF kind = "won60" THEN close_on_exit(opened, row, tp, StartTime - 60)
        ELSE IF kind = "lost61" THEN close_on_exit(opened, row, sl, StartTime - 61)
        ELSE close_on_exit(opened, row, tp, StartTime - 61)

\* the tables of exactly n rows, row j for the j-th symbol (cyclically)
RECURSIVE GateTables(_)
GateTables(n) ==
    IF n = 0 THEN {<<>>}
    ELSE {AddGateRow(t, GateSymbols[((n - 1) % Len(GateSymbols)) + 1], kind) :
              t \in GateTables(n - 1), kind \in GateKinds}

GateInit ==
    /\ signals \in UNION {GateTables(n) : n \in 0..MaxGateRows}
    /\ triggers = <<>>
    /\ trigger_stats = [created |-> 0, fired |-> 0, expired |-> 0, converted |-> 0]
    /\ now = StartTime
    /\ req = [r \in Requests |-> IdleReq]
    /\ tracker_pc = "sleep"
    /\ be_rows = <<>>
    /\ oe_rows = <<>>
    /\ tracker_price = None
    /\ watcher_pc = "sleep"
    /\ pending = <<>>
    /\ watcher_seen = NoSeen
    /\ tracker_feed = NoFeed

GateOutputs == [symbol \in GateRequestSymbols |-> TradeOutputs(symbol, {<<"BUY", -20, 50>>})]
NextGates == AnalyzeNext({"r1"}, GateOutputs, MaxGateRows + 1, MaxTriggers)

SpecGates == GateInit /\ [][NextGates]_vars

\* The admission gates with a signals database that may fail the risky-trade query
NextLookup ==
    \/ NextGates
    \/ AnalyzeGateDailyLookupFailed("r1")
    \/ AnalyzeGateRiskyLookupFailed("r1")

SpecLookup == GateInit /\ [][NextLookup]_vars

\* The trigger watcher as a thread that keeps running: watcher_loop calls
\* process_pending_triggers and sleeps, for ever, so each of its steps that can be taken
\* is taken in the end, and the clock moves on; one HTTP worker serves requests.
WatchOutputs ==
    [symbol \in Symbols |-> TradeOutputs(symbol, PlainShapes) \cup WaitOutputs(symbol)]
NextWatch ==
    \/ WatcherNext
    \/ Tick
    \/ AnalyzeNext({"r1"}, WatchOutputs, MaxSignals, MaxTriggers)
FairWatch ==
    /\ WF_vars(WatcherScan)
    /\ WF_vars(\E reading \in AnyReading, outcome \in ReanalysisOutcomes \cup {NullStr} :
                  WatcherEval(reading, outcome))
    /\ WF_vars(WatcherStep)
    /\ WF_vars(Tick)

SpecWatch == Init /\ [][NextWatch]_vars /\ FairWatch

\* The risky-trade ceiling from an empty signals table: one HTTP worker serves requests
\* for five symbols one after the other, the model replies BUY.
SpecCeiling == Init /\ [][NextGates]_vars

\* Trigger evaluation: one HTTP worker saves one trigger of any type and direction, its
\* level on, half a pip from, or just beyond half a pip from a price the feed can show;
\* the watcher evaluates it.
TriggerTypes == {"level_break", "retest_hold", "range_edge_reject", "ema_retouch"}
TriggerDirections == {"above", "below", "bullish", "bearish"}
EvalLevelOffsets(symbol) ==
    LET half == Pip(symbol) \div 2
    IN  {-(half + 1), -half, 0, half, half + 1}
Timeframes == {"M15", "M30", "H1", "H4"}
ExpiryBars == {4, 8}
EvalOutputs ==
    [symbol \in Symbols |->
        TradeOutputs(symbol, PlainShapes) \cup
        { [ok |-> TRUE, decision |-> "WAIT", entry |-> None, sl |-> None, tp |-> None,
           next_trigger |-> Some([type |-> "level_break", timeframe |-> timeframe,
                                  level |-> Base(symbol), direction |-> "above",
                                  expiry_bars |-> expiry_bars])]
            : timeframe \in Timeframes, expiry_bars \in ExpiryBars } \cup
        { [ok |-> TRUE, decision |-> "WAIT", entry |-> None, sl |-> None, tp |-> None,
           next_trigger |-> Some([type |-> type, timeframe |-> "M15",
                                  level |-> Base(symbol) + k, direction |-> direction,
                                  expiry_bars |-> 8])]
            : type \in TriggerTypes, direction \in TriggerDirections,
              k \in EvalLevelOffsets(symbol) }]
NextEval ==
    \/ WatcherNext
    \/ AnalyzeNext({"r1"}, EvalOutputs, MaxSignals, MaxEvalTriggers)

SpecEval == Init /\ [][NextEval]_vars

\* Pip arithmetic: one HTTP worker creates BUY and SELL signals and manual closes arrive
\* with exit prices off the pip grid (for XAUUSD they fall between and halfway between
\* tenths of a pip).
PipOffsets == {-2500, -1500, -1499, -500, 500, 1499, 1500, 2500}
ManualNextAt(results, offsets) ==
    \E id \in SignalIds, result \in results, d \in offsets :
        CloseManually(id, result, signals[id].entry_price + d)
NextPips ==
    \/ ManualNextAt({"WIN"}, PipOffsets)
    \/ AnalyzeNext({"r1"}, SignalOutputs, MaxSignals, MaxTriggers)

SpecPips == Init /\ [][NextPips]_vars

\* -------------------------------------------------------------- claims
\* C1: with signal blocking enabled, every symbol has at most one signal that is ACTIVE
\* with decision BUY or SELL, whatever the interleaving of analysis requests, tracker
\* passes and manual closes.
C1_OneActiveSignalPerSymbol ==
    ENABLE_SIGNAL_BLOCKING =>
        \A symbol \in Symbols :
            Cardinality({i \in SignalIds : signals[i].symbol = symbol
                                           /\ IsActiveTrade(signals[i])}) <= 1

\* C2: a trigger leaves PENDING once: a row whose status is CONSUMED, EXPIRED, SUPERSEDED
\* or CLEARED keeps that status in every later step, the watcher's mark included.
C2_TerminalStatusIsFinal ==
    [][\A i \in TriggerIds :
          triggers[i].status # "PENDING" => triggers'[i].status = triggers[i].status]_vars

\* C3: result, exit_price, exit_timestamp, pnl_pips and duration_minutes are null while
\* the signal is ACTIVE, are all written by the step that takes it from ACTIVE to CLOSED,
\* and no step rewrites them (or the status) on a signal that is already CLOSED.
C3_ExitFieldsWrittenOnce ==
    [][\A i \in SignalIds :
          LET before == signals[i]
              after == signals'[i]
          IN  /\ before.status = "ACTIVE" =>
                    /\ before.result = NullStr
                    /\ before.exit_price = None
                    /\ before.exit_timestamp = None
                    /\ before.pnl_pips = None
                    /\ before.duration_minutes = None
              /\ before.status = "ACTIVE" /\ after.status = "CLOSED" =>
                    /\ after.result # NullStr
                    /\ after.exit_price # None
                    /\ after.exit_timestamp # None
                    /\ after.pnl_pips # None
                    /\ after.duration_minutes # None
              /\ before.status = "CLOSED" =>
                    /\ after.status = "CLOSED"
                    /\ after.result = before.result
                    /\ after.exit_price = before.exit_price
                    /\ after.exit_timestamp = before.exit_timestamp
                    /\ after.pnl_pips = before.pnl_pips
                    /\ after.duration_minutes = before.duration_minutes]_vars

\* C4: every symbol has at most one trigger with status PENDING, whatever the
\* interleaving of saves, clears and watcher cycles.
C4_OnePendingTriggerPerSymbol ==
    \A symbol \in Symbols :
        Cardinality({i \in TriggerIds : triggers[i].symbol = symbol
                                        /\ triggers[i].status = "PENDING"}) <= 1

\* two requests for one symbol were in flight together and both saved a trigger
C4_Witness ==
    /\ Len(triggers) = 2
    /\ triggers[1].symbol = triggers[2].symbol
    /\ triggers[1].status = "SUPERSEDED"
    /\ triggers[2].status = "PENDING"
    /\ \A r \in Requests : req[r].pc = "done" /\ req[r].resp.decision = "WAIT"

\* C5: once a signal is CLOSED its current_stop, breakeven_triggered, breakeven_timestamp
\* and modification list never change, also when the close lands between the breakeven
\* pass's read of the active signals and its write.
C5_ClosedSignalKeepsStop ==
    [][\A i \in SignalIds :
          signals[i].status = "CLOSED" =>
              /\ signals'[i].current_stop_loss = signals[i].current_stop_loss
              /\ signals'[i].breakeven_triggered = signals[i].breakeven_triggered
              /\ signals'[i].breakeven_timestamp = signals[i].breakeven_timestamp
              /\ signals'[i].stop_modifications = signals[i].stop_modifications]_vars

\* C6: current_stop never moves away from entry: in every step its distance to entry
\* does not grow, and a current_stop equal to entry stays as it is.
C6_StopNeverMovesAway ==
    [][\A i \in SignalIds :
          /\ Abs(signals'[i].current_stop_loss - signals'[i].entry_price)
                <= Abs(signals[i].current_stop_loss - signals[i].entry_price)
          /\ signals[i].current_stop_loss = signals[i].entry_price =>
                signals'[i].current_stop_loss = signals[i].current_stop_loss]_vars

\* a live signal whose stop has been moved from its original place to entry
C6_Witness ==
    \E i \in SignalIds :
        /\ signals[i].status = "ACTIVE"
        /\ signals[i].breakeven_triggered = 1
        /\ signals[i].current_stop_loss = signals[i].entry_price
        /\ signals[i].original_stop_loss # signals[i].entry_price

\* C7: the step that creates a signal with stop S stores original_stop = current_stop = S
\* and breakeven_triggered = 0; no later step changes original_stop; current_stop is
\* original_stop while breakeven_triggered is 0 and entry once it is 1.
C7_StopRoundTrip ==
    [][/\ Len(signals') > Len(signals) =>
             \E r \in Requests :
                 /\ req[r].pc = "signal"
                 /\ req'[r].pc = "done"
                 /\ Len(signals') = Len(signals) + 1
                 /\ LET created == signals'[Len(signals')]
                        S == Val(req[r].analysis.sl)
                    IN  /\ created.original_stop_loss = S
                        /\ created.current_stop_loss = S
                        /\ created.breakeven_triggered = 0
       /\ \A i \in SignalIds :
             signals'[i].original_stop_loss = signals[i].original_stop_loss
       /\ \A i \in 1..Len(signals') :
             LET s == signals'[i]
             IN  IF s.breakeven_triggered = 0
                 THEN s.current_stop_loss = s.original_stop_loss
                 ELSE s.current_stop_loss = s.entry_price]_vars

\* a signal that went through breakeven and closed there, its original stop still in place
C7_Witness ==
    \E i \in SignalIds :
        /\ signals[i].status = "CLOSED"
        /\ signals[i].result = "BREAKEVEN"
        /\ signals[i].breakeven_triggered = 1
        /\ signals[i].original_stop_loss = signals[i].stop_loss
        /\ signals[i].original_stop_loss # signals[i].current_stop_loss

\* C8: for an ACTIVE signal with breakeven_triggered = 0 and a price, the breakeven pass
\* sets current_stop = entry and breakeven_triggered = 1 exactly when
\* price >= entry + |entry - original_stop| (BUY) or price <= entry - |entry - original_stop|
\* (SELL), wherever original_stop lies; otherwise it leaves the signal unchanged.
C8_BreakevenAtRiskDistance ==
    [][tracker_pc = "breakeven_check" /\ tracker_pc' = "breakeven" =>
          LET i == Head(be_rows)
              s == signals[i]
              price == Val(tracker_price)
              risk_distance == Abs(s.entry_price - s.original_stop_loss)
              due == IF s.decision = "BUY" THEN price >= s.entry_price + risk_distance
                     ELSE price <= s.entry_price - risk_distance
          IN  s.status = "ACTIVE" /\ s.breakeven_triggered = 0 =>
                  IF due
                  THEN /\ signals'[i].current_stop_loss = s.entry_price
                       /\ signals'[i].breakeven_triggered = 1
                  ELSE signals'[i] = s]_vars

\* C9: for an ACTIVE signal and a price, the outcome pass closes a BUY as WIN at target
\* when price >= target, else at current_stop when price <= current_stop (BREAKEVEN when
\* current_stop = entry, LOSS otherwise), else leaves it ACTIVE; SELL is the mirror image.
C9_ActualExit ==
    [][tracker_pc = "outcome_check" /\ tracker_pc' = "outcome" =>
          LET i == Head(oe_rows).id
              s == signals[i]
              price == Val(tracker_price)
              at_target == IF s.decision = "BUY" THEN price >= s.take_profit
                           ELSE price <= s.take_profit
              at_stop == IF s.decision = "BUY" THEN price <= s.current_stop_loss
                         ELSE price >= s.current_stop_loss
          IN  s.status = "ACTIVE" =>
                  IF at_target
                  THEN /\ signals'[i].status = "CLOSED"
                       /\ signals'[i].result = "WIN"
                       /\ signals'[i].exit_price = Some(s.take_profit)
                  ELSE IF at_stop
                  THEN /\ signals'[i].status = "CLOSED"
                       /\ signals'[i].result =
                             IF s.current_stop_loss = s.entry_price THEN "BREAKEVEN" ELSE "LOSS"
                       /\ signals'[i].exit_price = Some(s.current_stop_loss)
                  ELSE signals' = signals]_vars

\* the outcome pass has closed one signal at its stop as a LOSS
C9_Witness ==
    \E i \in SignalIds :
        /\ signals[i].status = "CLOSED"
        /\ signals[i].result = "LOSS"
        /\ signals[i].hypothetical_result = "LOSS"
        /\ signals[i].exit_price = Some(signals[i].current_stop_loss)
        /\ signals[i].current_stop_loss # signals[i].entry_price

\* C10: the breakeven_impact the outcome pass stores with a close is NO_BREAKEVEN_USED
\* when breakeven was never triggered; otherwise SAVED_LOSS for BREAKEVEN against a
\* hypothetical LOSS, MISSED_PROFIT for BREAKEVEN against a hypothetical WIN,
\* REDUCED_PROFIT for two WINs with the actual pnl below the hypothetical one, and
\* NO_IMPACT in every other case (a hypothetical leg with no exit included).
C10_BreakevenImpact ==
    [][tracker_pc = "outcome_check" /\ tracker_pc' = "outcome" /\ signals' # signals =>
          LET i == Head(oe_rows).id
              closed == signals'[i]
              actual == closed.result
              hypothetical == closed.hypothetical_result
          IN  closed.breakeven_impact =
                  IF signals[i].breakeven_triggered = 0 THEN "NO_BREAKEVEN_USED"
                  ELSE IF actual = "BREAKEVEN" /\ hypothetical = "LOSS" THEN "SAVED_LOSS"
                  ELSE IF actual = "BREAKEVEN" /\ hypothetical = "WIN" THEN "MISSED_PROFIT"
                  ELSE IF /\ actual = "WIN"
                          /\ hypothetical = "WIN"
                          /\ Val(closed.pnl_pips) < Val(closed.hypothetical_pnl_pips)
                       THEN "REDUCED_PROFIT"
                  ELSE "NO_IMPACT"]_vars

\* breakeven closed a signal flat that would have lost at its original stop
C10_Witness ==
    \E i \in SignalIds :
        /\ signals[i].status = "CLOSED"
        /\ signals[i].breakeven_impact = "SAVED_LOSS"
        /\ signals[i].hypothetical_result = "LOSS"
        /\ signals[i].pnl_pips = Some(0)

\* C11: for an ACTIVE BUY signal whose stop was moved to entry by breakeven, an
\* outcome step at a price p with original_stop < p <= entry closes it as BREAKEVEN at
\* entry with 0 pips, no hypothetical result and breakeven_impact NO_IMPACT.
C11_BreakevenThenFall ==
    [][tracker_pc = "outcome_check" /\ tracker_pc' = "outcome" =>
          LET i == Head(oe_rows).id
              s == signals[i]
              p == Val(tracker_price)
          IN  /\ s.status = "ACTIVE"
              /\ s.decision = "BUY"
              /\ s.breakeven_triggered = 1
              /\ s.current_stop_loss = s.entry_price
              /\ s.original_stop_loss < p
              /\ p <= s.entry_price
              => /\ signals'[i].status = "CLOSED"
                 /\ signals'[i].result = "BREAKEVEN"
                 /\ signals'[i].exit_price = Some(s.entry_price)
                 /\ signals'[i].pnl_pips = Some(0)
                 /\ signals'[i].hypothetical_result = NullStr
                 /\ signals'[i].breakeven_impact = "NO_IMPACT"]_vars

\* C12: when the outcome pass finds the price at or beyond the stop of an ACTIVE signal whose
\* breakeven was never triggered, the signal closes as LOSS at original_stop, the
\* hypothetical leg has the same result, exit price and pips, and breakeven_impact is
\* NO_BREAKEVEN_USED.
C12_LossBeforeBreakeven ==
    [][tracker_pc = "outcome_check" /\ tracker_pc' = "outcome" =>
          LET i == Head(oe_rows).id
              s == signals[i]
              p == Val(tracker_price)
              stop_hit == IF s.decision = "BUY" THEN p <= s.original_stop_loss
                          ELSE p >= s.original_stop_loss
          IN  s.status = "ACTIVE" /\ s.breakeven_triggered = 0 /\ stop_hit =>
                  /\ signals'[i].status = "CLOSED"
                  /\ signals'[i].result = "LOSS"
                  /\ signals'[i].exit_price = Some(s.original_stop_loss)
                  /\ signals'[i].hypothetical_result = signals'[i].result
                  /\ signals'[i].hypothetical_exit_price = signals'[i].exit_price
                  /\ signals'[i].hypothetical_pnl_pips = signals'[i].pnl_pips
                  /\ signals'[i].breakeven_impact = "NO_BREAKEVEN_USED"]_vars

\* C13: for every entry, exit and symbol the pips of a BUY are the negation of the pips of
\* a SELL; checked on the entry, exit and symbol of every closed signal, whose stored
\* pnl_pips is therefore the negation of what the opposite decision yields.
C13_PipsAntisymmetric ==
    \A i \in SignalIds :
        signals[i].exit_price # None =>
            LET e == signals[i].entry_price
                x == Val(signals[i].exit_price)
                buy == calculate_pips(e, x, signals[i].symbol, "BUY")
                sell == calculate_pips(e, x, signals[i].symbol, "SELL")
            IN  /\ buy = -sell
                /\ signals[i].pnl_pips = Some(IF signals[i].decision = "BUY" THEN -sell ELSE -buy)

\* a SELL on gold closed 0.025 above entry: -0.25 pips, stored as -0.2
C13_Witness ==
    \E i \in SignalIds :
        /\ signals[i].symbol = "XAUUSD"
        /\ signals[i].decision = "SELL"
        /\ signals[i].exit_price = Some(signals[i].entry_price + 2500)
        /\ signals[i].pnl_pips = Some(-2)

\* ---------------------------------------------------------------------
\* C14: a step in which one of the four admission gates rejects a request
\* answers decision WAIT with the reason of that gate (four different
\* reasons), finishes the request without the model call (no analysis is
\* formed), and leaves the signals table, the triggers table and the trigger
\* counters as they were.
GateReason(pc) ==
    IF pc = "idle" THEN "Symbol already has active signal"
    ELSE IF pc = "cooldown" THEN "Symbol in cooldown period"
    ELSE IF pc = "daily" THEN "Daily analysis limit reached"
    ELSE "Too many risky active trades"

GatePcs == {"idle", "cooldown", "daily", "risky"}

C14_GateRejection ==
    [][\A r \in Requests :
          req[r].pc \in GatePcs /\ req'[r].pc = "done" =>
              /\ req'[r].resp.decision = "WAIT"
              /\ req'[r].resp.error = GateReason(req[r].pc)
              /\ \A pc \in GatePcs \ {req[r].pc} : req'[r].resp.error # GateReason(pc)
              /\ req'[r].analysis = NoAnalysis
              /\ signals' = signals
              /\ triggers' = triggers
              /\ trigger_stats' = trigger_stats]_vars

C14_Witness ==
    /\ req["r1"].pc = "done"
    /\ req["r1"].resp.error = "Symbol already has active signal"
    /\ req["r1"].resp.decision = "WAIT"
    /\ has_active_signal(signals, req["r1"].symbol)

\* ---------------------------------------------------------------------
\* C15: the cooldown gate rejects a request exactly when the symbol has a
\* closed signal with an exit time and fewer than 60 minutes lie between the
\* latest of these exit times and the request (40 minutes: rejected; 60 or
\* 61 minutes: admitted); a symbol without a closed signal passes the gate.
ExitTimes(symbol) ==
    {Val(signals[i].exit_timestamp) :
        i \in {j \in SignalIds : /\ signals[j].symbol = symbol
                                 /\ signals[j].status = "CLOSED"
                                 /\ signals[j].exit_timestamp # None}}

C15_CooldownGate ==
    [][\A r \in Requests :
          req[r].pc = "cooldown" /\ req'[r] # req[r] =>
              LET exits == ExitTimes(req[r].symbol)
                  in_cooldown == /\ exits # {}
                                 /\ \E latest \in exits : /\ \A e \in exits : e <= latest
                                                          /\ now - latest < 60
              IN  /\ in_cooldown => /\ req'[r].pc = "done"
                                    /\ req'[r].resp.error = "Symbol in cooldown period"
                  /\ ~in_cooldown => req'[r].pc = "daily"
                  /\ exits = {} => req'[r].pc = "daily"
                  /\ now - 40 \in exits => req'[r].pc = "done"
                  /\ exits # {} /\ (\A e \in exits : e <= now - 61) => req'[r].pc = "daily"]_vars

\* a request rejected 40 minutes after the latest exit, an older exit of the symbol lying
\* more than an hour back
C15_Witness ==
    /\ req["r1"].pc = "done"
    /\ req["r1"].resp.error = "Symbol in cooldown period"
    /\ now - 40 \in ExitTimes(req["r1"].symbol)
    /\ now - 61 \in ExitTimes(req["r1"].symbol)

\* ---------------------------------------------------------------------
\* C16: the daily win-cap gate rejects a request exactly when the wins minus
\* the losses of today (the signals that closed today) are 3 or more and no
\* ACTIVE signal is without breakeven protection; with the cap reached and a
\* risky signal (ACTIVE, breakeven_triggered = 0) still open, the gate admits
\* the request.

\* the signals C16 counts for today: those whose exit falls on the day of the request
ClosedToday ==
    {i \in SignalIds : /\ signals[i].status = "CLOSED"
                       /\ signals[i].exit_timestamp # None
                       /\ Day(Val(signals[i].exit_timestamp)) = Day(now)}

NetWinsToday ==
    Cardinality({i \in ClosedToday : signals[i].result = "WIN"})
      - Cardinality({i \in ClosedToday : signals[i].result = "LOSS"})

RiskyRows == {i \in SignalIds : signals[i].status = "ACTIVE" /\ signals[i].breakeven_triggered = 0}

C16_DailyCapGate ==
    [][\A r \in Requests :
          req[r].pc = "daily" /\ req'[r] # req[r] =>
              /\ req'[r].pc = "done" <=> (NetWinsToday >= 3 /\ RiskyRows = {})
              /\ NetWinsToday >= 3 /\ RiskyRows # {} => req'[r].pc = "risky"]_vars

ModelAskedForTrigger(a) ==
    /\ a.model_decision = "WAIT"
    /\ a.next_trigger # None
    /\ Val(a.next_trigger).type # "none"
    /\ {"type", "timeframe", "level", "direction"} \subseteq DOMAIN Val(a.next_trigger)

C18_TriggerOnlyOnModelWait ==
    [][\A r \in Requests :
          req[r].pc = "triggers" /\ req'[r] # req[r] =>
              /\ Len(triggers') > Len(triggers) => ModelAskedForTrigger(req[r].analysis)
              /\ ~ModelAskedForTrigger(req[r].analysis) =>
                    /\ Len(triggers') = Len(triggers)
                    /\ \A i \in TriggerIds :
                          triggers'[i].status = "SUPERSEDED" => triggers[i].status = "SUPERSEDED"]_vars

\* ---------------------------------------------------------------------
\* C19: the step that saves a new trigger for a symbol turns every PENDING
\* trigger that symbol had into SUPERSEDED, the row staying in the table with
\* its symbol, condition, creation and expiry times; the new row is PENDING;
\* the triggers of other symbols and the triggers that were not PENDING are
\* exactly as before.
C19_SaveSupersedes ==
    [][Len(triggers') = Len(triggers) + 1 =>
          LET new == triggers'[Len(triggers')]
          IN  /\ new.status = "PENDING"
              /\ \A i \in TriggerIds :
                    IF triggers[i].symbol = new.symbol /\ triggers[i].status = "PENDING"
                    THEN /\ triggers'[i].status = "SUPERSEDED"
                         /\ triggers'[i] = [triggers[i] EXCEPT !.status = "SUPERSEDED",
                                                               !.consumed_at = triggers'[i].consumed_at]
                    ELSE triggers'[i] = triggers[i]]_vars

\* a second trigger for the symbol has superseded the first, which is still in the table
C19_Witness ==
    /\ Len(triggers) = 2
    /\ triggers[1].symbol = triggers[2].symbol
    /\ triggers[1].status = "SUPERSEDED"
    /\ triggers[1].consumed_at = Some(triggers[2].created_at)
    /\ triggers[1].trigger # triggers[2].trigger
    /\ triggers[2].status = "PENDING"

\* ---------------------------------------------------------------------
\* C20: when a request's own analysis ends in BUY or SELL (not overridden by
\* a filter), its trigger step turns every PENDING trigger of the symbol into
\* CLEARED with fire_reason "Trade signal: BUY" or "Trade signal: SELL",
\* whichever way the trigger pointed; the triggers of other symbols, and the
\* triggers of the symbol that were not PENDING, stay as they were.
C20_TradeSignalClears ==
    [][\A r \in Requests :
          /\ req[r].pc = "triggers"
          /\ req'[r] # req[r]
          /\ req[r].analysis.decision \in {"BUY", "SELL"}
          /\ ~req[r].analysis.filter_override
          => /\ Len(triggers') = Len(triggers)
             /\ \A i \in TriggerIds :
                   IF triggers[i].symbol = req[r].symbol /\ triggers[i].status = "PENDING"
                   THEN triggers'[i] =
                           [triggers[i] EXCEPT
                               !.status = "CLEARED",
                               !.consumed_at = triggers'[i].consumed_at,
                               !.fire_reason = IF req[r].analysis.decision = "BUY"
                                               THEN "Trade signal: BUY"
                                               ELSE "Trade signal: SELL"]
                   ELSE triggers'[i] = triggers[i]]_vars

\* a BUY has cleared a bearish trigger of its symbol
C20_Witness ==
    \E i \in TriggerIds, r \in Requests :
        /\ triggers[i].status = "CLEARED"
        /\ triggers[i].fire_reason = "Trade signal: BUY"
        /\ triggers[i].trigger.direction = "bearish"
        /\ req[r].pc = "signal"
        /\ req[r].symbol = triggers[i].symbol
        /\ req[r].analysis.decision = "BUY"

\* ---------------------------------------------------------------------
\* C21: the watcher's scan takes up every PENDING trigger, and the iteration
\* that handles a PENDING trigger whose expiry_ts lies before the current
\* time marks it EXPIRED whatever the price and the hour: result and
\* fire_reason stay null (no condition was evaluated, no re-analysis ran),
\* only the expired counter moves, and no other row changes.
WatcherIteration == watcher_pc = "mark" /\ pending' = Tail(pending)

C21_ExpiredWithoutEvaluation ==
    [][/\ watcher_pc = "sleep" /\ watcher_pc' # "sleep" =>
             \A i \in TriggerIds :
                 triggers[i].status = "PENDING" => \E k \in 1..Len(pending') : pending'[k] = i
       /\ WatcherIteration =>
             LET id == Head(pending)
                 t == triggers[id]
             IN  t.status = "PENDING" /\ watcher_seen.at > t.expiry_ts =>
                     /\ triggers' = [triggers EXCEPT ![id] =
                                       [t EXCEPT !.status = "EXPIRED", !.consumed_at = Some(now)]]
                     /\ triggers'[id].result = NullStr
                     /\ triggers'[id].fire_reason = NullStr
                     /\ trigger_stats' = [trigger_stats EXCEPT !.expired = @ + 1]
                     /\ signals' = signals]_vars

\* an M15 trigger of 8 bars, 130 minutes after its creation, outside the trading hours
C21_Witness ==
    \E i \in TriggerIds :
        /\ triggers[i].status = "EXPIRED"
        /\ triggers[i].consumed_at = Some(now)
        /\ now = triggers[i].created_at + 130
        /\ triggers[i].expiry_ts = triggers[i].created_at + 120
        /\ ~is_valid_trading_time(now)
        /\ triggers[i].result = NullStr
        /\ trigger_stats.expired >= 1

\* ---------------------------------------------------------------------
\* C22: when the re-analysis of a fired trigger fails (the model call raises,
\* no M15 data, an unparseable reply), the iteration skips the trigger: it
\* stays PENDING, its row untouched, for the next cycle and reaches no
\* terminal status.
C22_FailedReanalysisKeepsPending ==
    [][WatcherIteration =>
          LET id == Head(pending)
          IN  triggers[id].status = "PENDING" /\ watcher_seen.outcome = "FAIL" =>
                  triggers'[id] = triggers[id]]_vars

\* ---------------------------------------------------------------------
\* C23: when the condition of a PENDING trigger is met and the re-analysis
\* returns a decision, BUY, SELL or WAIT alike, the iteration makes the
\* trigger CONSUMED with that decision as result and the explanation of the
\* match as fire_reason; fired is counted, converted only for BUY and SELL;
\* no other row changes.
C23_FiredTriggerConsumed ==
    [][WatcherIteration =>
          LET id == Head(pending)
              t == triggers[id]
              decision == watcher_seen.outcome
              ev == eval_trigger(t.trigger, t.symbol, watcher_seen.reading)
          IN  t.status = "PENDING" /\ decision \in {"BUY", "SELL", "WAIT"} =>
                  /\ ev[1]
                  /\ triggers' = [triggers EXCEPT ![id] =
                                    [t EXCEPT !.status = "CONSUMED", !.consumed_at = Some(now),
                                              !.result = decision, !.fire_reason = ev[2]]]
                  /\ trigger_stats'.fired = trigger_stats.fired + 1
                  /\ trigger_stats'.converted =
                        trigger_stats.converted + (IF decision = "WAIT" THEN 0 ELSE 1)]_vars

\* a bearish retest at the level was followed by a re-analysis that still said WAIT
C23_Witness ==
    \E i \in TriggerIds :
        /\ triggers[i].status = "CONSUMED"
        /\ triggers[i].result = "WAIT"
        /\ triggers[i].fire_reason = "retesting (bearish)"
        /\ trigger_stats.fired >= 1
        /\ trigger_stats.converted = 0

\* ---------------------------------------------------------------------
\* C24: a request that fails part-way leaves no partial write. A trigger that
\* a trade signal has CLEARED always has its signal: the request that cleared
\* it is about to insert the signal, or a signal of that symbol and decision,
\* created at or after the clearing, is in the signals table.
ClearedBy(decision) ==
    {i \in TriggerIds : /\ triggers[i].status = "CLEARED"
                        /\ triggers[i].fire_reason = IF decision = "BUY" THEN "Trade signal: BUY"
                                                     ELSE "Trade signal: SELL"}

C24_NoPartialWrite ==
    \A decision \in {"BUY", "SELL"} :
        \A i \in ClearedBy(decision) :
            \/ \E r \in Requests : /\ req[r].pc = "signal"
                                   /\ req[r].symbol = triggers[i].symbol
                                   /\ req[r].analysis.decision = decision
            \/ \E j \in SignalIds : /\ signals[j].symbol = triggers[i].symbol
                                    /\ signals[j].decision = decision
                                    /\ signals[j].timestamp >= Val(triggers[i].consumed_at)

\* ---------------------------------------------------------------------
\* C25: a reply to a direct analysis that does not parse or breaks the schema
\* (decision, reasoning or confidence missing, a decision other than BUY,
\* SELL, WAIT) is handled as WAIT with no trigger: the request ends there with
\* decision WAIT, and no signal is created, no trigger is created, no pending
\* trigger is superseded or cleared. Every other reply goes on with its own
\* decision.
C25_InvalidReplyIsWait ==
    [][\A r \in Requests :
          req[r].pc = "model" /\ req'[r] # req[r] =>
              \/ /\ req'[r].pc = "triggers"
                 /\ req'[r].analysis.model_decision \in {"BUY", "SELL", "WAIT"}
              \/ /\ req'[r].pc = "done"
                 /\ req'[r].resp.decision = "WAIT"
                 /\ signals' = signals
                 /\ triggers' = triggers
                 /\ trigger_stats' = trigger_stats]_vars

\* ---------------------------------------------------------------------
\* C26: when the tracker finds no price for the symbol of a signal (no feed
\* file, a file older than 300 seconds, the symbol not in the file), the
\* iteration is over at once: no breakeven move, no closure, every field of
\* every signal as before. A breakeven or outcome check runs only on the bid
\* of a feed that was there, no older than 300 seconds.
FeedUnavailable(feed) == ~feed.exists \/ feed.age > 300 \/ feed.bid = None

BreakevenFetch ==
    tracker_pc = "breakeven" /\ be_rows # <<>> /\ <<tracker_pc', be_rows'>> # <<tracker_pc, be_rows>>
OutcomeFetch ==
    tracker_pc = "outcome" /\ oe_rows # <<>> /\ <<tracker_pc', oe_rows'>> # <<tracker_pc, oe_rows>>

C26_NoPriceNoAction ==
    [][/\ BreakevenFetch /\ FeedUnavailable(tracker_feed') =>
             signals' = signals /\ be_rows' = Tail(be_rows) /\ tracker_pc' = "breakeven"
       /\ OutcomeFetch /\ FeedUnavailable(tracker_feed') =>
             signals' = signals /\ oe_rows' = Tail(oe_rows) /\ tracker_pc' = "outcome"
       /\ tracker_pc' \in {"breakeven_check", "outcome_check"} =>
             ~FeedUnavailable(tracker_feed') /\ tracker_price' = tracker_feed'.bid]_vars

\* the feed file is 301 seconds old and shows the target of a BUY; the signal is skipped
C26_Witness ==
    /\ tracker_pc = "outcome"
    /\ tracker_feed.exists
    /\ tracker_feed.age = 301
    /\ oe_rows = <<>>
    /\ \E i \in SignalIds : /\ signals[i].status = "ACTIVE"
                            /\ signals[i].decision = "BUY"
                            /\ signals[i].breakeven_triggered = 0
                            /\ tracker_feed.bid = Some(signals[i].take_profit)

\* ---- C27, C28: what eval_trigger reports met
\* the watcher iteration at hand evaluates a PENDING trigger on a price: the trigger
\* has not expired, the session is open, and the feed gave a bar
EvaluatedOnPrice ==
    /\ WatcherIteration
    /\ triggers[Head(pending)].status = "PENDING"
    /\ trigger_evaluated(triggers[Head(pending)], watcher_seen.at)
    /\ watcher_seen.reading # None
\* |price - level| <= slop in exact arithmetic, slop = 0.5 pip
WithinHalfPip(t, price) ==
    2 * Abs(price - t.trigger.level) * get_pip_multiplier(t.symbol) <= PriceScale
\* a met condition is re-analysed and the trigger CONSUMED, an unmet one leaves the row
ReportedMet == triggers'[Head(pending)].status = "CONSUMED"

\* C27: a range_edge_reject trigger is met exactly when the price is within half a pip of
\* its level, whatever direction (above, below, bullish, bearish) it carries.
C27_RangeEdgeAnyDirection ==
    [][ (EvaluatedOnPrice /\ triggers[Head(pending)].trigger.type = "range_edge_reject")
          => (ReportedMet <=> WithinHalfPip(triggers[Head(pending)], Val(watcher_seen.reading)))
      ]_vars

\* C28: level_break is met iff the price is strictly above the level for direction above
\* or strictly below it for direction below; retest_hold is met iff the price is within
\* half a pip of the level and at or above it for bullish, at or below it for bearish;
\* ema_retouch is met iff the price is within half a pip of the level.
C28_OtherTypesAsSpecified ==
    [][ EvaluatedOnPrice =>
          LET t == triggers[Head(pending)]
              price == Val(watcher_seen.reading)
              level == t.trigger.level
              direction == t.trigger.direction
          IN  /\ t.trigger.type = "level_break" =>
                    (ReportedMet <=> \/ direction = "above" /\ price > level
                                     \/ direction = "below" /\ price < level)
              /\ t.trigger.type = "retest_hold" =>
                    (ReportedMet <=> /\ WithinHalfPip(t, price)
                                     /\ \/ direction = "bullish" /\ price >= level
                                        \/ direction = "bearish" /\ price <= level)
              /\ t.trigger.type = "ema_retouch" =>
                    (ReportedMet <=> WithinHalfPip(t, price))
      ]_vars

\* ---- C29: no evaluation outside the session
\* the clock reads a time before 06:00 or from 20:00 on
OutsideTradingHours(ts) == (ts \div 60) % 24 < 6 \/ (ts \div 60) % 24 >= 20

BarMinutes == [M15 |-> 15, M30 |-> 30, H1 |-> 60, H4 |-> 240]

\* C30: every trigger row expires expiry_bars bars of its timeframe after its creation,
\* a bar being 15 minutes on M15, 30 on M30, 60 on H1 and 240 on H4.
C30_ExpiryTimestamp ==
    \A i \in 1..Len(triggers) :
        LET t == triggers[i]
        IN  t.expiry_ts = t.created_at + t.trigger.expiry_bars * BarMinutes[t.trigger.timeframe]
\* a trigger of 8 bars on M15 is stored, expiring 120 minutes after its creation
C30_Witness ==
    \E i \in 1..Len(triggers) :
        /\ triggers[i].trigger.timeframe = "M15"
        /\ triggers[i].trigger.expiry_bars = 8
        /\ triggers[i].expiry_ts = triggers[i].created_at + 120

\* ---- C31: the daily counters
\* the rows that take the given status in the step at hand
Becomes(status) ==
    {i \in 1..Len(triggers) : triggers[i].status # status /\ triggers'[i].status = status}

\* C31: in every step each counter of the day grows by the number of its events and by
\* nothing else: created by the rows inserted, expired by the rows that become EXPIRED,
\* fired by the rows that become CONSUMED, converted by those of them whose result is BUY
\* or SELL. Rows that become SUPERSEDED or CLEARED move no counter, and a step holds at
\* most one event of a kind.
C31_CountersFollowEvents ==
    [][ /\ trigger_stats'.created = trigger_stats.created + (Len(triggers') - Len(triggers))
        /\ trigger_stats'.expired = trigger_stats.expired + Cardinality(Becomes("EXPIRED"))
        /\ trigger_stats'.fired = trigger_stats.fired + Cardinality(Becomes("CONSUMED"))
        /\ trigger_stats'.converted = trigger_stats.converted
              + Cardinality({i \in Becomes("CONSUMED") : triggers'[i].result \in {"BUY", "SELL"}})
        /\ Len(triggers') - Len(triggers) \in {0, 1}
        /\ Cardinality(Becomes("EXPIRED")) <= 1
        /\ Cardinality(Becomes("CONSUMED")) <= 1
      ]_vars
\* a day on which a trigger was created and superseded, and another fired and converted
C31_Witness ==
    /\ \E i \in 1..Len(triggers) : triggers[i].status \in {"SUPERSEDED", "CLEARED"}
    /\ \E i \in 1..Len(triggers) :
          triggers[i].status = "CONSUMED" /\ triggers[i].result \in {"BUY", "SELL"}
    /\ trigger_stats.created = 2
    /\ trigger_stats.fired = 1
    /\ trigger_stats.converted = 1

\* ---- C32: the breakeven check applies once
\* C32: a signal never holds more than one stop-modification record; once its
\* breakeven_timestamp is set, no step changes the timestamp, the flag or the record; and
\* on every table the system reaches, a second breakeven pass at the price of the first
\* (at the same time or later) leaves the table as the first left it.
C32_BreakevenOnce ==
    [][ /\ \A i \in 1..Len(signals') : Len(signals'[i].stop_modifications) <= 1
        /\ \A i \in 1..Len(signals) :
              signals[i].breakeven_timestamp # None
                => /\ signals'[i].breakeven_timestamp = signals[i].breakeven_timestamp
                   /\ signals'[i].breakeven_triggered = signals[i].breakeven_triggered
                   /\ signals'[i].stop_modifications = signals[i].stop_modifications
        /\ \A k \in PriceOffsets :
              LET once == check_breakeven_conditions(signals', k, now')
              IN  /\ check_breakeven_conditions(once, k, now') = once
                  /\ check_breakeven_conditions(once, k, now' + 1) = once
      ]_vars
\* a signal moved to breakeven earlier is still ACTIVE while the worker is in a pass
C32_Witness ==
    \E i \in 1..Len(signals) :
        /\ signals[i].status = "ACTIVE"
        /\ signals[i].breakeven_triggered = 1
        /\ Len(signals[i].stop_modifications) = 1
        /\ now > Val(signals[i].breakeven_timestamp)
        /\ tracker_pc = "outcome_check"

\* ---- C33: the number of risky trades
\* C33: at no time are more than 3 signals, over all symbols, ACTIVE without breakeven
\* protection.
C33_AtMostThreeRisky == Cardinality(RiskyRows) <= 3

\* ---- C34: the fail-safe of the risky-trade lookup
\* C34: when the risky-trade lookup fails at the daily gate the request passes that gate,
\* and when it fails at the ceiling while at most 3 signals are in fact risky, the
\* request goes on to the model: the failure by itself rejects nothing.
C34_LookupFailureAdmits ==
    [][\A r \in Requests :
          /\ AnalyzeGateDailyLookupFailed(r) => req'[r].pc = "risky"
          /\ AnalyzeGateRiskyLookupFailed(r) /\ Cardinality(RiskyRows) <= 3
                => req'[r].pc = "model"]_vars

\* ---- C35: no loss after breakeven
\* the outcome pass closes the row it has fetched in the step at hand
OutcomeCloses ==
    /\ tracker_pc = "outcome_check"
    /\ tracker_pc' = "outcome"
    /\ signals'[Head(oe_rows).id] # signals[Head(oe_rows).id]
\* the target of the row lies on the profit side of its entry
TargetOnProfitSide(s) ==
    IF s.decision = "BUY" THEN s.take_profit > s.entry_price ELSE s.take_profit < s.entry_price

\* C35: a signal whose breakeven has been triggered is closed by the outcome pass as WIN
\* or BREAKEVEN, never as LOSS and never with negative pips; closed as BREAKEVEN it exits
\* at its entry with 0 pips.
C35_NoLossAfterBreakeven ==
    [][ (OutcomeCloses /\ signals[Head(oe_rows).id].breakeven_triggered = 1)
          => LET s == signals'[Head(oe_rows).id]
             IN  /\ s.result \in {"WIN", "BREAKEVEN"}
                 /\ Val(s.pnl_pips) >= 0
                 /\ s.result = "BREAKEVEN"
                      => Val(s.exit_price) = s.entry_price /\ Val(s.pnl_pips) = 0
      ]_vars

\* ---- C38: the sign of the pips follows the result
\* C38: every signal the outcome pass closes as WIN has pnl_pips > 0 and every signal it
\* closes as LOSS has pnl_pips < 0, whatever entry, stop and target the filters accepted.
C38_PipsSignFollowsResult ==
    [][ OutcomeCloses
          => LET s == signals'[Head(oe_rows).id]
             IN  /\ s.result = "WIN" => Val(s.pnl_pips) > 0
                 /\ s.result = "LOSS" => Val(s.pnl_pips) < 0
      ]_vars

\* ---- C36: the trigger loop and the signal store
\* C36: no step of the trigger watcher changes the signals table; the iteration whose
\* re-analysis answered BUY or SELL marks the trigger CONSUMED with that result and
\* counts it as fired and converted, and the signals table stays as it was.
C36_WatcherLeavesSignals ==
    [][ /\ watcher_pc' # watcher_pc => signals' = signals
        /\ (/\ WatcherIteration
            /\ triggers[Head(pending)].status = "PENDING"
            /\ watcher_seen.outcome \in {"BUY", "SELL"})
             => /\ triggers'[Head(pending)].status = "CONSUMED"
                /\ triggers'[Head(pending)].result = watcher_seen.outcome
                /\ trigger_stats'.converted = trigger_stats.converted + 1
                /\ trigger_stats'.fired = trigger_stats.fired + 1
                /\ signals' = signals
      ]_vars
\* a trigger was converted to a BUY while the signals table is empty
C36_Witness ==
    /\ \E i \in 1..Len(triggers) : triggers[i].status = "CONSUMED" /\ triggers[i].result = "BUY"
    /\ trigger_stats.converted = 1
    /\ signals = <<>>

\* ---- C37: an active signal and a pending trigger
\* C37: with signal blocking enabled, no symbol has an ACTIVE BUY/SELL signal and a
\* PENDING trigger at the same time.
C37_NoPendingTriggerBesideActiveSignal ==
    ENABLE_SIGNAL_BLOCKING =>
        \A symbol \in Symbols :
            ~ /\ has_active_signal(signals, symbol)
              /\ \E i \in 1..Len(triggers) :
                    triggers[i].symbol = symbol /\ triggers[i].status = "PENDING"

\* ---- C39: the impacts that cannot be stored
\* C39: no step leaves a signal with its target on the profit side of entry with
\* breakeven_impact MISSED_PROFIT or REDUCED_PROFIT; the outcome pass closes none as
\* BREAKEVEN against a hypothetical WIN, and one it closes as WIN against a hypothetical
\* WIN has the same pips on both legs.
C39_NoMissedOrReducedProfit ==
    [][ /\ \A i \in 1..Len(signals') :
              TargetOnProfitSide(signals'[i])
                => signals'[i].breakeven_impact \notin {"MISSED_PROFIT", "REDUCED_PROFIT"}
        /\ (OutcomeCloses /\ TargetOnProfitSide(signals[Head(oe_rows).id]))
              => LET s == signals'[Head(oe_rows).id]
                 IN  /\ ~(s.result = "BREAKEVEN" /\ s.hypothetical_result = "WIN")
                     /\ s.result = "WIN" /\ s.hypothetical_result = "WIN"
                          => s.pnl_pips = s.hypothetical_pnl_pips
      ]_vars
\* a signal moved to breakeven was closed at its target, a WIN on both legs
C39_Witness ==
    \E i \in 1..Len(signals) :
        /\ TargetOnProfitSide(signals[i])
        /\ signals[i].status = "CLOSED"
        /\ signals[i].breakeven_triggered = 1
        /\ signals[i].result = "WIN"
        /\ signals[i].hypothetical_result = "WIN"
        /\ signals[i].breakeven_impact = "NO_IMPACT"

\* ---- C40: every pending trigger ends
\* the last time the clock shows
ClockEnd == StartTime + MaxTicks * TickStep

\* row i of the triggers table exists and is PENDING
TriggerPending(i) == IF i <= Len(triggers) THEN triggers[i].status = "PENDING" ELSE FALSE

\* C40: with the watcher loop running and the clock moving on, every PENDING trigger
\* whose expiry the clock gets past leaves PENDING in the end (SUPERSEDED, CLEARED,
\* CONSUMED or, at the latest, EXPIRED), whatever prices the feed shows or fails to show
\* and whatever the re-analysis answers or fails to answer.
C40_PendingTriggerEnds ==
    \A i \in 1..MaxTriggers :
        (TriggerPending(i) /\ triggers[i].expiry_ts < ClockEnd) ~> ~TriggerPending(i)
\* a trigger that no cycle fired was marked EXPIRED after its expiry, outside trading hours
C40_Witness ==
    \E i \in 1..Len(triggers) :
        /\ triggers[i].status = "EXPIRED"
        /\ Val(triggers[i].consumed_at) > triggers[i].expiry_ts
        /\ ~is_valid_trading_time(Val(triggers[i].consumed_at))

====
